---- MODULE Spec2Model ----
(***************************************************************************)
(* Model of the vehicle road-rule analyzer: the violation detector of      *)
(* rules.py (detect_violations, _fmt_time) run as a state machine, one     *)
(* step per event of the input sequence; the time codec (parse_time of     *)
(* parser.py with _fmt_time), the functions of storage.py on the tables of *)
(* the database, and make_report of report.py, one step per call; read_log *)
(* of parser.py, one step per line; load_scenario of parser.py; the sort   *)
(* key of detect_violations on pairs of timestamps; main of                *)
(* log_analyzer.py, one step per stage of a run, on one database file; and *)
(* the order of two saved violations as the by-type query returns them.    *)
(*                                                                         *)
(* Numbers.  Every float of the program (timestamps, speeds, distances,    *)
(* thresholds) is held as an integer count of ticks, TicksPerUnit ticks    *)
(* to the unit.  The values the model draws are multiples of 1/16, which   *)
(* IEEE doubles hold exactly and add, subtract and compare without         *)
(* rounding, so the integer arithmetic below is the program's arithmetic   *)
(* on those values.  parse_time also yields tenths of a second (8 ticks):  *)
(* there the double is off the decimal by less than 1e-12, which moves no  *)
(* digit that _fmt_time prints, since no tenth lies on a rounding tie.     *)
(*                                                                         *)
(* Text.  A Python str is a sequence of one-character strings; literal     *)
(* pieces of an f-string are kept as one element.                          *)
(***************************************************************************)
EXTENDS Integers, Sequences, FiniteSets, TLC

VARIABLES
    pc,                \* where the call is: "idle", "loop", "returned", "raised"
    rules,             \* scenario["road_rules"] of the current call
    events,            \* the events the for-loop has consumed so far, in order
    last_follow,       \* local last_follow: None or Some(ticks)
    stop_detect_time,  \* local stop_detect_time: None or Some(ticks)
    violations,        \* local violations list
    emitted,           \* emitted[i]: what the step of events[i] appended to violations
    ret,               \* Some(list) once the call has returned, else NoResult
    exc,               \* exception the call raised, NoException if none
    mode,              \* "free": input chosen freely; "replay": input is memo's
    memo,              \* Some(the last completed free call), its input and outcome
    db,                \* storage._DB: None, or the tables of the open database
    call               \* the last call of a function outside the detector: its
                       \* name, arguments and outcome; None before the first

vars == <<pc, rules, events, last_follow, stop_detect_time, violations,
          emitted, ret, exc, mode, memo, db, call>>

\* What the detector never touches.
outside == <<db, call>>

\* An optional value: None, or Some(x) whose value is Val(o).
None == <<>>
Some(x) == <<x>>
Val(o) == o[1]

NoResult == None
NoException == "none"

\* ------------------------------------------------------------------------
\* Numbers and text
\* ------------------------------------------------------------------------

TicksPerUnit == 80

Digits == <<"0", "1", "2", "3", "4", "5", "6", "7", "8", "9">>

IsDigit(c) == c \in {"0", "1", "2", "3", "4", "5", "6", "7", "8", "9"}

DigitVal(c) ==
    CASE c = "0" -> 0 [] c = "1" -> 1 [] c = "2" -> 2 [] c = "3" -> 3 [] c = "4" -> 4
      [] c = "5" -> 5 [] c = "6" -> 6 [] c = "7" -> 7 [] c = "8" -> 8 [] c = "9" -> 9

RECURSIVE Pow10(_)
Pow10(k) == IF k = 0 THEN 1 ELSE 10 * Pow10(k - 1)

\* Decimal digits of a natural number, most significant first ("%d").
RECURSIVE DecimalText(_)
DecimalText(n) ==
    IF n < 10 THEN <<Digits[n + 1]>>
    ELSE DecimalText(n \div 10) \o <<Digits[(n % 10) + 1]>>

\* Left-pad a text with "0" up to a width; longer texts are left alone.
RECURSIVE ZeroPad(_, _)
ZeroPad(txt, width) ==
    IF Len(txt) >= width THEN txt ELSE ZeroPad(<<"0">> \o txt, width)

\* Round x/d to the nearest integer, ties to even (printf's rounding of an
\* exactly represented value).
RoundHalfEven(x, d) ==
    LET q == x \div d
        r == x % d
    IN  IF 2 * r < d THEN q
        ELSE IF 2 * r > d THEN q + 1
        ELSE IF q % 2 = 0 THEN q ELSE q + 1

Abs(x) == IF x < 0 THEN 0 - x ELSE x

\* f"{x:0<width>.1f}" (width 0: f"{x:.1f}"): one decimal digit, sign first,
\* zeros after the sign up to the width.
FormatF1(x, width) ==
    LET tenths == RoundHalfEven(Abs(x), TicksPerUnit \div 10)
        body   == DecimalText(tenths \div 10) \o <<".">> \o <<Digits[(tenths % 10) + 1]>>
    IN  IF x < 0 THEN <<"-">> \o ZeroPad(body, width - 1)
        ELSE ZeroPad(body, width)

\* f"{x:.0f}": no decimal digit and no point.
FormatF0(x) ==
    LET units == RoundHalfEven(Abs(x), TicksPerUnit)
    IN  IF x < 0 THEN <<"-">> \o DecimalText(units) ELSE DecimalText(units)

\* f"{m:02d}".
FormatD2(m) ==
    IF m < 0 THEN <<"-">> \o ZeroPad(DecimalText(0 - m), 1)
    ELSE ZeroPad(DecimalText(m), 2)

\* str.replace(old, "") for a one-character old.
RECURSIVE Remove(_, _)
Remove(txt, c) ==
    IF txt = <<>> THEN <<>>
    ELSE IF Head(txt) = c THEN Remove(Tail(txt), c)
    ELSE <<Head(txt)>> \o Remove(Tail(txt), c)

RECURSIVE DigitsValue(_)
DigitsValue(txt) ==
    IF txt = <<>> THEN 0
    ELSE 10 * DigitsValue(SubSeq(txt, 1, Len(txt) - 1)) + DigitVal(txt[Len(txt)])

\* Position of the first "." of a text, 0 if there is none.
RECURSIVE PointAt(_, _)
PointAt(txt, i) ==
    IF i > Len(txt) THEN 0
    ELSE IF txt[i] = "." THEN i
    ELSE PointAt(txt, i + 1)

ValueError == "ValueError"

\* Variant: a text that is no number is taken as 0.
ParseFloat_Coerce(txt) ==
    LET signed == txt /= <<>> /\ Head(txt) \in {"-", "+"}
        mag    == IF signed THEN Tail(txt) ELSE txt
        p      == PointAt(mag, 1)
        whole  == IF p = 0 THEN mag ELSE SubSeq(mag, 1, p - 1)
        frac   == IF p = 0 THEN <<>> ELSE SubSeq(mag, p + 1, Len(mag))
        ok     == /\ Len(whole) + Len(frac) > 0
                  /\ \A i \in 1..Len(whole) : IsDigit(whole[i])
                  /\ \A i \in 1..Len(frac) : IsDigit(frac[i])
        value  == DigitsValue(whole) * TicksPerUnit
                  + (DigitsValue(frac) * TicksPerUnit) \div Pow10(Len(frac))
    IN  IF ~ok THEN Some(0)
        ELSE IF signed /\ Head(txt) = "-" THEN Some(0 - value)
        ELSE Some(value)

\* float(text) for plain decimal text: an optional sign, digits, at most one
\* point, at least one digit: Some(value in ticks).  Anything else raises
\* ValueError: None.
ParseFloat(txt) ==
    LET signed == txt /= <<>> /\ Head(txt) \in {"-", "+"}
        mag    == IF signed THEN Tail(txt) ELSE txt
        p      == PointAt(mag, 1)
        whole  == IF p = 0 THEN mag ELSE SubSeq(mag, 1, p - 1)
        frac   == IF p = 0 THEN <<>> ELSE SubSeq(mag, p + 1, Len(mag))
        ok     == /\ Len(whole) + Len(frac) > 0
                  /\ \A i \in 1..Len(whole) : IsDigit(whole[i])
                  /\ \A i \in 1..Len(frac) : IsDigit(frac[i])
        value  == DigitsValue(whole) * TicksPerUnit
                  + (DigitsValue(frac) * TicksPerUnit) \div Pow10(Len(frac))
    IN  IF ~ok THEN None
        ELSE IF signed /\ Head(txt) = "-" THEN Some(0 - value)
        ELSE Some(value)

\* ------------------------------------------------------------------------
\* rules.py
\* ------------------------------------------------------------------------

\* Variant: the minutes wrap at 60, as on a clock.
FmtTime_WrapMinutes(t) ==
    LET m == t \div (60 * TicksPerUnit)
        s == t - m * (60 * TicksPerUnit)
    IN  FormatD2(m % 60) \o <<":">> \o FormatF1(s, 4)

\* _fmt_time(t): "MM:SS.s".
FmtTime(t) ==
    LET m == t \div (60 * TicksPerUnit)
        s == t - m * (60 * TicksPerUnit)
    IN  FormatD2(m) \o <<":">> \o FormatF1(s, 4)

\* Literal text of an f-string, kept as one element.
Lit(str) == <<str>>

Violation(type, t, details) == [type |-> type, time |-> FmtTime(t), details |-> details]

\* Variant: the stripped texts are compared as texts, not as numbers (a
\* shorter text is filled up with zeros on the right, to nine digits).
SortKey_AsText(v) ==
    LET d == Remove(Remove(v.time, ":"), ".")
    IN  DigitsValue(d) * Pow10(9 - Len(d))

\* Sort key of the final sort: float(v["time"].replace(":", "").replace(".", "")).
SortKey(v) == Val(ParseFloat(Remove(Remove(v.time, ":"), ".")))

\* list.sort(key=...): Python's sort is stable, so the result is the one
\* ordering by key that keeps equal keys in their original order; built here
\* by inserting each element after every element whose key is not greater.
\* Variant: an element goes before the elements of equal key.
RECURSIVE InsertByKey_BeforeEqual(_, _)
InsertByKey_BeforeEqual(sorted, v) ==
    IF sorted = <<>> THEN <<v>>
    ELSE IF SortKey(Head(sorted)) < SortKey(v)
         THEN <<Head(sorted)>> \o InsertByKey_BeforeEqual(Tail(sorted), v)
         ELSE <<v>> \o sorted

RECURSIVE InsertByKey(_, _)
InsertByKey(sorted, v) ==
    IF sorted = <<>> THEN <<v>>
    ELSE IF SortKey(Head(sorted)) <= SortKey(v)
         THEN <<Head(sorted)>> \o InsertByKey(Tail(sorted), v)
         ELSE <<v>> \o sorted

\* Variant: a violation equal to one already in the list is left out.
RECURSIVE SortViolations_Unique(_)
SortViolations_Unique(vs) ==
    IF vs = <<>> THEN <<>>
    ELSE LET rest == SortViolations_Unique(SubSeq(vs, 1, Len(vs) - 1))
             last == vs[Len(vs)]
         IN  IF \E i \in 1..Len(rest) : rest[i] = last
             THEN rest
             ELSE InsertByKey(rest, last)

RECURSIVE SortViolations(_)
SortViolations(vs) ==
    IF vs = <<>> THEN <<>>
    ELSE InsertByKey(SortViolations(SubSeq(vs, 1, Len(vs) - 1)), vs[Len(vs)])

\* ------------------------------------------------------------------------
\* Inputs
\* ------------------------------------------------------------------------

MaxEvents == 3       \* longest event sequence of one call
MaxReplay == 2       \* longest event sequence that is run a second time

\* Timestamps, in ticks: 0.0625 s ("00:00.1"), and 1.0625 s and 1.125 s
\* (both "00:01.1"); they lie 1.0 s, 1.0625 s and 0.0625 s apart.
TimeVals == {5, 85, 90}

LastTime == CHOOSE t \in TimeVals : \A u \in TimeVals : u <= t

Event(t, kind, arg) == [t |-> t, kind |-> kind, arg |-> arg]

\* Arguments of SPEED events: 60.0 and 60.125 (moving), 1.0 (not moving),
\* and a text that is no number.
MovingArgs == { <<"6", "0", ".", "0">>, <<"6", "0", ".", "1", "2", "5">> }
StillArgs == { <<"1", ".", "0">> }

\* Arguments of FOLLOW_DISTANCE events: 9.875, 10.0.
UnsafeArgs == { <<"9", ".", "8", "7", "5">> }
SafeArgs == { <<"1", "0", ".", "0">> }

NoNumber == <<"x">>

\* The events a sequence is made of.  An event whose timestamp is read (it
\* can emit a violation, or it sets or ends a wait) comes at every
\* timestamp; the others (a SPEED that is not moving, a safe distance, the
\* second lane-change direction, and the events that end the call with an
\* error) come at the last timestamp only.
Inputs ==
    {Event(t, "SPEED", a) : t \in TimeVals, a \in MovingArgs}
    \cup {Event(LastTime, "SPEED", a) : a \in StillArgs \cup {NoNumber}}
    \cup {Event(t, "FOLLOW_DISTANCE", a) : t \in TimeVals, a \in UnsafeArgs}
    \cup {Event(LastTime, "FOLLOW_DISTANCE", a) : a \in SafeArgs \cup {NoNumber}}
    \cup {Event(t, "LANE_CHANGE", <<"L", "E", "F", "T">>) : t \in TimeVals}
    \cup {Event(LastTime, "LANE_CHANGE", <<"R", "I", "G", "H", "T">>)}
    \cup {Event(t, "STOP_SIGN_DETECTED", <<>>) : t \in TimeVals}
    \cup {Event(LastTime, "UNKNOWN", <<"d", "a", "t", "a">>)}

KnownKinds == {"SPEED", "FOLLOW_DISTANCE", "LANE_CHANGE", "STOP_SIGN_DETECTED"}

\* The inputs each branch of the if/elif chain takes.
OfKind(kind) == {e \in Inputs : e.kind = kind}
SpeedInputs == OfKind("SPEED")
FollowInputs == OfKind("FOLLOW_DISTANCE")
LaneInputs == OfKind("LANE_CHANGE")
StopInputs == OfKind("STOP_SIGN_DETECTED")
OtherInputs == {e \in Inputs : e.kind \notin KnownKinds}

\* scenario["road_rules"]: a limit of 60.0, a minimum distance of 10.0 and a
\* wait of 1.0 s.
RuleSets ==
    { [max_speed |-> 60 * TicksPerUnit, min_follow_distance |-> 10 * TicksPerUnit,
       stop_sign_wait |-> TicksPerUnit] }

\* ------------------------------------------------------------------------
\* detect_violations, one action per branch of the loop body
\* ------------------------------------------------------------------------

Init ==
    /\ pc = "idle"
    /\ rules \in RuleSets
    /\ events = <<>>
    /\ last_follow = None
    /\ stop_detect_time = None
    /\ violations = <<>>
    /\ emitted = <<>>
    /\ ret = NoResult
    /\ exc = NoException
    /\ mode = "free"
    /\ memo = None
    /\ db = None
    /\ call = None

\* What the input iterable yields next: anything in a free call, the
\* remembered sequence in a replayed one.
Yields(e) ==
    /\ pc = "loop"
    /\ Len(events) < MaxEvents
    /\ mode = "replay" =>
         /\ Len(events) < Len(Val(memo).events)
         /\ e = Val(memo).events[Len(events) + 1]

Exhausted ==
    /\ pc = "loop"
    /\ mode = "replay" => Len(events) = Len(Val(memo).events)

\* A completed free call is remembered, with its input, when it is short
\* enough to be run again.
Remember(r, x) ==
    IF mode = "free"
    THEN IF Len(events') <= MaxReplay
         THEN Some([rules |-> rules, events |-> events', ret |-> r, exc |-> x])
         ELSE None
    ELSE memo

\* Variant: the detector state outlives the call.
Enter_KeepState(r, m) ==
    /\ pc' = "loop"
    /\ rules' = r
    /\ events' = <<>>
    /\ violations' = <<>>
    /\ emitted' = <<>>
    /\ ret' = NoResult
    /\ exc' = NoException
    /\ mode' = m
    /\ UNCHANGED <<last_follow, stop_detect_time>>
    /\ UNCHANGED outside

\* Entry of detect_violations: the thresholds are read and every local is
\* created afresh.
Enter(r, m) ==
    /\ pc' = "loop"
    /\ rules' = r
    /\ events' = <<>>
    /\ last_follow' = None
    /\ stop_detect_time' = None
    /\ violations' = <<>>
    /\ emitted' = <<>>
    /\ ret' = NoResult
    /\ exc' = NoException
    /\ mode' = m
    /\ UNCHANGED outside

Call ==
    /\ pc \in {"idle", "returned", "raised"}
    /\ \E r \in RuleSets : Enter(r, "free")
    /\ memo' = None

CallAgain ==
    /\ pc \in {"returned", "raised"}
    /\ memo /= None
    /\ mode = "free"
    /\ Enter(Val(memo).rules, "replay")
    /\ UNCHANGED memo

\* An exception leaves the call: the frame and its locals are gone and
\* nothing is returned.
Raise(e, x) ==
    /\ pc' = "raised"
    /\ events' = Append(events, e)
    /\ emitted' = Append(emitted, <<>>)
    /\ exc' = x
    /\ memo' = Remember(NoResult, x)
    /\ UNCHANGED <<rules, last_follow, stop_detect_time, violations, ret, mode>>
    /\ UNCHANGED outside

Consume(e, new) ==
    /\ events' = Append(events, e)
    /\ violations' = violations \o new
    /\ emitted' = Append(emitted, new)
    /\ UNCHANGED <<pc, rules, ret, exc, mode, memo>>
    /\ UNCHANGED outside

\* Variant: the limit itself counts as speeding.
SpeedingOf_AtLimit(t, speed) ==
    IF speed >= rules.max_speed
    THEN << Violation("SPEEDING", t,
              FormatF1(speed, 0) \o Lit(" mph in ") \o FormatF0(rules.max_speed)
              \o Lit(" mph zone")) >>
    ELSE <<>>

SpeedingOf(t, speed) ==
    IF speed > rules.max_speed
    THEN << Violation("SPEEDING", t,
              FormatF1(speed, 0) \o Lit(" mph in ") \o FormatF0(rules.max_speed)
              \o Lit(" mph zone")) >>
    ELSE <<>>

\* Variant: a speed of exactly 1.0 counts as moving.
StopCheckDue_MovingAtOne(t, speed) ==
    /\ stop_detect_time /= None
    /\ speed >= TicksPerUnit
    /\ t > Val(stop_detect_time)

StopCheckDue(t, speed) ==
    /\ stop_detect_time /= None
    /\ speed > TicksPerUnit
    /\ t > Val(stop_detect_time)

\* Variant: a wait of exactly stop_sign_wait is still a rolling stop.
RollingStopOf_AtWait(t, speed) ==
    IF StopCheckDue(t, speed) /\ t - Val(stop_detect_time) <= rules.stop_sign_wait
    THEN << Violation("ROLLING_STOP", t,
              Lit("Stopped ") \o FormatF1(t - Val(stop_detect_time), 0) \o Lit("s; required ")
              \o FormatF1(rules.stop_sign_wait, 0) \o Lit("s")) >>
    ELSE <<>>

RollingStopOf(t, speed) ==
    IF StopCheckDue(t, speed) /\ t - Val(stop_detect_time) < rules.stop_sign_wait
    THEN << Violation("ROLLING_STOP", t,
              Lit("Stopped ") \o FormatF1(t - Val(stop_detect_time), 0) \o Lit("s; required ")
              \o FormatF1(rules.stop_sign_wait, 0) \o Lit("s")) >>
    ELSE <<>>

\* Variant: the wait is cleared only when a violation was found.
StopTimeAfterSpeed_KeepIfWaited(t, speed) ==
    IF StopCheckDue(t, speed) /\ t - Val(stop_detect_time) < rules.stop_sign_wait
    THEN None ELSE stop_detect_time

\* stop_detect_time after a SPEED event: cleared when the check was due,
\* whether or not it found a violation.
StopTimeAfterSpeed(t, speed) ==
    IF StopCheckDue(t, speed) THEN None ELSE stop_detect_time

\* Variant: the stop check is made before the speed check.
OnSpeed_StopCheckFirst ==
    \E e \in SpeedInputs :
        LET t == e.t
            parsed == ParseFloat(e.arg)
            speed == Val(parsed)
        IN  /\ Yields(e)
            /\ IF parsed = None
               THEN Raise(e, ValueError)
               ELSE /\ Consume(e, RollingStopOf(t, speed) \o SpeedingOf(t, speed))
                    /\ stop_detect_time' = StopTimeAfterSpeed(t, speed)
                    /\ UNCHANGED last_follow

OnSpeed ==
    \E e \in SpeedInputs :
        LET t == e.t
            parsed == ParseFloat(e.arg)
            speed == Val(parsed)
        IN  /\ Yields(e)
            /\ IF parsed = None
               THEN Raise(e, ValueError)
               ELSE /\ Consume(e, SpeedingOf(t, speed) \o RollingStopOf(t, speed))
                    /\ stop_detect_time' = StopTimeAfterSpeed(t, speed)
                    /\ UNCHANGED last_follow

\* Variant: the minimum distance itself counts as tailgating.
TailgatingOf_AtMinimum(t, dist) ==
    IF dist <= rules.min_follow_distance
    THEN << Violation("TAILGATING", t,
              FormatF1(dist, 0) \o Lit(" m < ") \o FormatF1(rules.min_follow_distance, 0)
              \o Lit(" m")) >>
    ELSE <<>>

TailgatingOf(t, dist) ==
    IF dist < rules.min_follow_distance
    THEN << Violation("TAILGATING", t,
              FormatF1(dist, 0) \o Lit(" m < ") \o FormatF1(rules.min_follow_distance, 0)
              \o Lit(" m")) >>
    ELSE <<>>

\* Variant: only a distance below the minimum is recorded.
FollowAfter_OnlyUnsafe(dist) ==
    IF dist < rules.min_follow_distance THEN Some(dist) ELSE last_follow

\* last_follow = dist, before the threshold is looked at.
FollowAfter(dist) == Some(dist)

OnFollowDistance ==
    \E e \in FollowInputs :
        LET t == e.t
            parsed == ParseFloat(e.arg)
            dist == Val(parsed)
        IN  /\ Yields(e)
            /\ IF parsed = None
               THEN Raise(e, ValueError)
               ELSE /\ Consume(e, TailgatingOf(t, dist))
                    /\ last_follow' = FollowAfter(dist)
                    /\ UNCHANGED stop_detect_time

\* Variant: a lane change with no distance on record counts as distance 0.
UnsafeLaneChangeOf_NoRecord(t) ==
    LET d == IF last_follow /= None THEN Val(last_follow) ELSE 0
    IN  IF d < rules.min_follow_distance
        THEN << Violation("UNSAFE_LANE_CHANGE", t,
                  Lit("follow ") \o FormatF1(d, 0) \o Lit(" m < ")
                  \o FormatF1(rules.min_follow_distance, 0) \o Lit(" m")) >>
        ELSE <<>>

UnsafeLaneChangeOf(t) ==
    IF last_follow /= None /\ Val(last_follow) < rules.min_follow_distance
    THEN << Violation("UNSAFE_LANE_CHANGE", t,
              Lit("follow ") \o FormatF1(Val(last_follow), 0) \o Lit(" m < ")
              \o FormatF1(rules.min_follow_distance, 0) \o Lit(" m")) >>
    ELSE <<>>

\* Variant: the lane change is judged by the reading whose timestamp is the
\* latest one not after its own, wherever the lane change stands in the
\* sequence.
OnLaneChange_ByTimestamp ==
    \E e \in LaneInputs :
        LET before == {i \in 1..Len(events) :
                         events[i].kind = "FOLLOW_DISTANCE" /\ events[i].t <= e.t}
            k == CHOOSE i \in before :
                     \A l \in before : events[l].t < events[i].t
                                       \/ (events[l].t = events[i].t /\ l <= i)
            d == Val(ParseFloat(events[k].arg))
        IN  /\ Yields(e)
            /\ Consume(e, IF before /= {} /\ d < rules.min_follow_distance
                          THEN << Violation("UNSAFE_LANE_CHANGE", e.t,
                                    Lit("follow ") \o FormatF1(d, 0) \o Lit(" m < ")
                                    \o FormatF1(rules.min_follow_distance, 0) \o Lit(" m")) >>
                          ELSE <<>>)
            /\ UNCHANGED <<last_follow, stop_detect_time>>

OnLaneChange ==
    \E e \in LaneInputs :
        /\ Yields(e)
        /\ Consume(e, UnsafeLaneChangeOf(e.t))
        /\ UNCHANGED <<last_follow, stop_detect_time>>

\* Variant: a stop sign seen while a wait is pending is ignored.
StopTimeAfterStopSign_KeepFirst(t) ==
    IF stop_detect_time = None THEN Some(t) ELSE stop_detect_time

\* stop_detect_time = t.
StopTimeAfterStopSign(t) == Some(t)

\* Variant: a stop sign also clears the recorded follow distance.
OnStopSign_ForgetsFollow ==
    \E e \in StopInputs :
        /\ Yields(e)
        /\ Consume(e, <<>>)
        /\ stop_detect_time' = StopTimeAfterStopSign(e.t)
        /\ last_follow' = None

OnStopSign ==
    \E e \in StopInputs :
        /\ Yields(e)
        /\ Consume(e, <<>>)
        /\ stop_detect_time' = StopTimeAfterStopSign(e.t)
        /\ UNCHANGED last_follow

\* Variant: an unknown kind is skipped and the loop goes on.
OnUnknownKind_Skip ==
    \E e \in OtherInputs :
        /\ Yields(e)
        /\ Consume(e, <<>>)
        /\ UNCHANGED <<last_follow, stop_detect_time>>

\* Any other kind: raise ValueError(f"unknown kind: {kind}").
OnUnknownKind ==
    \E e \in OtherInputs :
        /\ Yields(e)
        /\ Raise(e, ValueError)

\* End of the loop: sort in place and return the list.
Return ==
    /\ Exhausted
    /\ pc' = "returned"
    /\ violations' = SortViolations(violations)
    /\ ret' = Some(violations')
    /\ UNCHANGED <<rules, events, last_follow, stop_detect_time, emitted, exc, mode>>
    /\ UNCHANGED outside
    /\ memo' = Remember(ret', NoException)

Next ==
    \/ Call
    \/ CallAgain
    \/ OnSpeed
    \/ OnFollowDistance
    \/ OnLaneChange
    \/ OnStopSign
    \/ OnUnknownKind
    \/ Return

Spec == Init /\ [][Next]_vars

\* ------------------------------------------------------------------------
\* Properties
\* ------------------------------------------------------------------------

Idx == 1..Len(events)

\* float(arg) of every argument text of the inputs.
ArgValue == [a \in {e.arg : e \in Inputs} |-> ParseFloat(a)]

IsNum(e) == ArgValue[e.arg] /= None
Num(e) == Val(ArgValue[e.arg])

CountType(vs, type) == Cardinality({k \in 1..Len(vs) : vs[k].type = type})

Emits(i, type) == CountType(emitted[i], type) > 0

SpeedAt(i) == events[i].kind = "SPEED" /\ IsNum(events[i])
FollowAt(i) == events[i].kind = "FOLLOW_DISTANCE" /\ IsNum(events[i])
LaneAt(i) == events[i].kind = "LANE_CHANGE"
StopAt(i) == events[i].kind = "STOP_SIGN_DETECTED"

\* The violations appended so far, in the order they were appended.
RECURSIVE Flatten(_)
Flatten(ss) == IF ss = <<>> THEN <<>> ELSE Head(ss) \o Flatten(Tail(ss))

\* C1: a SPEED event of value v emits a SPEEDING violation exactly when
\* v > max_speed (none at v = max_speed), and the list a call returns holds
\* one SPEEDING per such event.
C1_SpeedingIffAboveLimit ==
    /\ \A i \in Idx :
         SpeedAt(i) =>
           /\ Emits(i, "SPEEDING") <=> Num(events[i]) > rules.max_speed
           /\ CountType(emitted[i], "SPEEDING") <= 1
    /\ pc = "loop" => violations = Flatten(emitted)
    /\ pc = "returned" =>
         CountType(Val(ret), "SPEEDING")
           = Cardinality({i \in Idx : SpeedAt(i) /\ Num(events[i]) > rules.max_speed})

C1_Witness ==
    /\ pc = "returned"
    /\ \E i, j \in Idx :
         /\ SpeedAt(i) /\ Num(events[i]) = rules.max_speed /\ ~Emits(i, "SPEEDING")
         /\ SpeedAt(j) /\ Num(events[j]) > rules.max_speed /\ Emits(j, "SPEEDING")

\* C2: a FOLLOW_DISTANCE event of value d emits a TAILGATING violation
\* exactly when d < min_follow_distance (none at d = min_follow_distance),
\* and the list a call returns holds one TAILGATING per such event.
C2_TailgatingIffBelowMinimum ==
    /\ \A i \in Idx :
         FollowAt(i) =>
           /\ Emits(i, "TAILGATING") <=> Num(events[i]) < rules.min_follow_distance
           /\ CountType(emitted[i], "TAILGATING") <= 1
    /\ pc = "returned" =>
         CountType(Val(ret), "TAILGATING")
           = Cardinality({i \in Idx :
                FollowAt(i) /\ Num(events[i]) < rules.min_follow_distance})

C2_Witness ==
    /\ pc = "returned"
    /\ \E i, j \in Idx :
         /\ FollowAt(i) /\ Num(events[i]) = rules.min_follow_distance
         /\ ~Emits(i, "TAILGATING")
         /\ FollowAt(j) /\ Num(events[j]) < rules.min_follow_distance
         /\ Emits(j, "TAILGATING")

\* A SPEED event that moves (v > 1.0).
MovingAt(i) == SpeedAt(i) /\ Num(events[i]) > TicksPerUnit

\* C3: when a wait is pending with origin o and a SPEED event with v > 1.0
\* and time t > o is processed, that step appends exactly one ROLLING_STOP
\* if t - o < stop_sign_wait and none if t - o >= stop_sign_wait.
C3_Step ==
    LET n == Len(events')
        e == events'[n]
        o == Val(stop_detect_time)
    IN  ( /\ pc = "loop" /\ pc' = "loop" /\ n = Len(events) + 1
          /\ e.kind = "SPEED" /\ IsNum(e) /\ Num(e) > TicksPerUnit
          /\ stop_detect_time /= None
          /\ e.t > o )
        => /\ CountType(emitted'[n], "ROLLING_STOP")
                = IF e.t - o < rules.stop_sign_wait THEN 1 ELSE 0
           /\ violations' = violations \o emitted'[n]

C3_RollingStopThreshold == [][C3_Step]_vars

\* A stop sign directly followed by a moving SPEED event exactly
\* stop_sign_wait later, which emitted nothing.
C3_Witness ==
    \E j \in Idx :
        /\ j > 1 /\ StopAt(j - 1) /\ MovingAt(j)
        /\ rules.stop_sign_wait > 0
        /\ events[j].t - events[j - 1].t = rules.stop_sign_wait
        /\ ~Emits(j, "ROLLING_STOP")

\* The SPEED event at i was due for the stop check of the stop sign at k.
DueAfter(k, i) == k < i /\ MovingAt(i) /\ events[i].t > events[k].t

\* The last stop sign before position j, 0 if there is none.
LastStopBefore(j) ==
    IF \E k \in 1..(j - 1) : StopAt(k)
    THEN CHOOSE k \in 1..(j - 1) : StopAt(k) /\ \A l \in (k + 1)..(j - 1) : ~StopAt(l)
    ELSE 0

\* C4: the check fires at most once per stop sign.  Every ROLLING_STOP is
\* emitted by the first SPEED event due after the last stop sign before it;
\* once such an event has been processed no wait is pending; and the
\* ROLLING_STOP violations never outnumber the STOP_SIGN_DETECTED events.
C4_OncePerStopSign ==
    /\ \A j \in Idx :
         Emits(j, "ROLLING_STOP") =>
           LET k == LastStopBefore(j)
           IN  /\ k > 0
               /\ DueAfter(k, j)
               /\ \A i \in (k + 1)..(j - 1) : ~DueAfter(k, i)
               /\ CountType(emitted[j], "ROLLING_STOP") = 1
    /\ (pc = "loop" /\ stop_detect_time /= None) =>
         LET k == LastStopBefore(Len(events) + 1)
         IN  k > 0 /\ \A i \in (k + 1)..Len(events) : ~DueAfter(k, i)
    /\ CountType(Flatten(emitted), "ROLLING_STOP")
         <= Cardinality({k \in Idx : StopAt(k)})
    /\ pc = "returned" =>
         CountType(Val(ret), "ROLLING_STOP") <= Cardinality({k \in Idx : StopAt(k)})

\* A stop sign, a due SPEED event that emitted a ROLLING_STOP, then another
\* due SPEED event within the required wait of the stop sign, which emitted
\* none.
C4_Witness ==
    /\ pc = "returned"
    /\ \E k, i, j \in Idx :
         /\ StopAt(k) /\ DueAfter(k, i) /\ DueAfter(k, j) /\ i < j
         /\ \A l \in (k + 1)..j : ~StopAt(l)
         /\ events[j].t - events[k].t < rules.stop_sign_wait
         /\ Emits(i, "ROLLING_STOP") /\ ~Emits(j, "ROLLING_STOP")
    /\ CountType(Val(ret), "ROLLING_STOP") = 1

\* C5: a LANE_CHANGE event with no FOLLOW_DISTANCE event before it in the
\* sequence emits no UNSAFE_LANE_CHANGE.
C5_NoDistanceNoUnsafeLaneChange ==
    /\ \A j \in Idx :
         (LaneAt(j) /\ \A i \in 1..(j - 1) : events[i].kind /= "FOLLOW_DISTANCE")
           => emitted[j] = <<>>
    /\ pc = "returned" =>
         ( (\A i \in Idx : events[i].kind /= "FOLLOW_DISTANCE")
             => CountType(Val(ret), "UNSAFE_LANE_CHANGE") = 0 )

C5_Witness ==
    /\ pc = "returned"
    /\ \E j \in Idx :
         /\ LaneAt(j)
         /\ \A i \in 1..(j - 1) : events[i].kind /= "FOLLOW_DISTANCE"
         /\ \E i \in (j + 1)..Len(events) :
              FollowAt(i) /\ Num(events[i]) < rules.min_follow_distance

\* The last FOLLOW_DISTANCE event before position j, 0 if there is none.
LastFollowBefore(j) ==
    IF \E k \in 1..(j - 1) : FollowAt(k)
    THEN CHOOSE k \in 1..(j - 1) : FollowAt(k) /\ \A l \in (k + 1)..(j - 1) : ~FollowAt(l)
    ELSE 0

\* C6: a LANE_CHANGE event emits an UNSAFE_LANE_CHANGE exactly when the most
\* recent FOLLOW_DISTANCE event before it recorded a distance below
\* min_follow_distance, whatever its direction and however long ago.
C6_LaneChangeUsesLastDistance ==
    /\ \A j \in Idx :
         LaneAt(j) =>
           LET k == LastFollowBefore(j)
           IN  /\ Emits(j, "UNSAFE_LANE_CHANGE")
                    <=> (k > 0 /\ Num(events[k]) < rules.min_follow_distance)
               /\ CountType(emitted[j], "UNSAFE_LANE_CHANGE") <= 1
    /\ pc = "loop" =>
         LET k == LastFollowBefore(Len(events) + 1)
         IN  last_follow = IF k = 0 THEN None ELSE Some(Num(events[k]))

\* An unsafe reading, then a safe one, then a lane change to the left that
\* emitted nothing.
C6_Witness ==
    \E i, k, j \in Idx :
        /\ i < k /\ k < j
        /\ FollowAt(i) /\ Num(events[i]) < rules.min_follow_distance
        /\ FollowAt(k) /\ Num(events[k]) >= rules.min_follow_distance
        /\ LaneAt(j) /\ events[j].arg = <<"L", "E", "F", "T">>
        /\ emitted[j] = <<>>

\* C7: an event of unknown kind ends the call with an error at that event:
\* nothing is returned, whatever had been emitted before.
C7_UnknownKindAborts ==
    \A i \in Idx :
        events[i].kind \notin KnownKinds =>
          /\ i = Len(events)
          /\ pc = "raised"
          /\ exc = ValueError
          /\ ret = NoResult

\* An unknown kind after an event that had emitted a violation.
C7_Witness ==
    /\ pc = "raised"
    /\ Len(events) > 1
    /\ events[Len(events)].kind \notin KnownKinds
    /\ emitted[1] /= <<>>

\* The elements of a list whose formatted time is txt, in list order.
RECURSIVE WithTime(_, _)
WithTime(vs, txt) ==
    IF vs = <<>> THEN <<>>
    ELSE IF Head(vs).time = txt THEN <<Head(vs)>> \o WithTime(Tail(vs), txt)
    ELSE WithTime(Tail(vs), txt)

\* C8: the returned list is in non-decreasing order of the numeric key of
\* the formatted time, and violations of the same formatted time are in the
\* order in which they were emitted.
C8_SortedStable ==
    pc = "returned" =>
      LET out == Val(ret)
          raw == Flatten(emitted)
          key == [i \in 1..Len(out) |-> SortKey(out[i])]
      IN  /\ Len(out) = Len(raw)
          /\ \A i \in 1..(Len(out) - 1) : key[i] <= key[i + 1]
          /\ \A txt \in {raw[i].time : i \in 1..Len(raw)} :
                WithTime(out, txt) = WithTime(raw, txt)
          /\ violations = out

\* Three events with one violation each: the first two have the same
\* formatted time although the first is the later one, the third is earlier
\* than both and comes out first.
C8_Witness ==
    /\ pc = "returned"
    /\ Len(events) = 3
    /\ \A i \in Idx : Len(emitted[i]) = 1
    /\ events[1].t > events[2].t
    /\ emitted[1][1].time = emitted[2][1].time
    /\ emitted[1][1] /= emitted[2][1]
    /\ SortKey(emitted[3][1]) < SortKey(emitted[1][1])
    /\ Val(ret) = <<emitted[3][1], emitted[1][1], emitted[2][1]>>

\* C9: a call run a second time on the same rules and the same events ends
\* the same way: the same returned list, or the same error.
C9_Deterministic ==
    (mode = "replay" /\ pc \in {"returned", "raised"}) =>
      /\ rules = Val(memo).rules
      /\ events = Val(memo).events
      /\ ret = Val(memo).ret
      /\ exc = Val(memo).exc

\* A second run of a sequence that starts with a lane change and whose
\* first run ended with an unsafe distance on record.
C9_Witness ==
    /\ mode = "replay" /\ pc = "returned"
    /\ Len(events) = 2
    /\ \E i, j \in Idx : LaneAt(i) /\ FollowAt(j) /\ i < j
                         /\ Num(events[j]) < rules.min_follow_distance
    /\ Val(ret) /= <<>>

\* C10: a STOP_SIGN_DETECTED event makes its own timestamp the pending
\* origin, whatever was pending, and the next due SPEED event is judged, and
\* its wait reported, from the most recent stop sign.
C10_LastStopSignCounts ==
    /\ (pc = "loop" /\ Len(events) > 0 /\ StopAt(Len(events)))
         => stop_detect_time = Some(events[Len(events)].t)
    /\ (pc = "loop" /\ stop_detect_time /= None)
         => LET k == LastStopBefore(Len(events) + 1)
            IN  k > 0 /\ stop_detect_time = Some(events[k].t)
    /\ \A j \in Idx :
         LET k == LastStopBefore(j)
         IN  (k > 0 /\ DueAfter(k, j) /\ \A i \in (k + 1)..(j - 1) : ~DueAfter(k, i))
               => LET waited == events[j].t - events[k].t
                  IN  /\ Emits(j, "ROLLING_STOP") <=> waited < rules.stop_sign_wait
                      /\ \A n \in 1..Len(emitted[j]) :
                           emitted[j][n].type = "ROLLING_STOP" =>
                             emitted[j][n].details =
                               Lit("Stopped ") \o FormatF1(waited, 0)
                               \o Lit("s; required ")
                               \o FormatF1(rules.stop_sign_wait, 0) \o Lit("s")

\* Two stop signs, the first one long ago and the second one recent, then a
\* moving SPEED event: a rolling stop by the second, not by the first.
C10_Witness ==
    /\ Len(events) = 3
    /\ StopAt(1) /\ StopAt(2) /\ MovingAt(3)
    /\ events[1].t < events[2].t /\ events[2].t < events[3].t
    /\ events[3].t - events[1].t >= rules.stop_sign_wait
    /\ events[3].t - events[2].t < rules.stop_sign_wait
    /\ Emits(3, "ROLLING_STOP")

\* C11: the events are processed in the order of the sequence, whatever
\* their timestamps.  A lane change is judged by the last FOLLOW_DISTANCE
\* event before it in the sequence, also when that event carries a later
\* timestamp, and by none that stands after it; a moving SPEED event with no
\* stop sign before it in the sequence is no rolling stop, whatever the
\* timestamps of the stop signs after it; a second run consumes the same
\* events in the same order; and the violations are appended in event order.
C11_SequenceOrderNotTimeOrder ==
    /\ mode = "replay" => events = SubSeq(Val(memo).events, 1, Len(events))
    /\ pc \in {"loop", "raised"} => violations = Flatten(emitted)
    /\ \A j \in Idx :
         LaneAt(j) =>
           LET k == LastFollowBefore(j)
           IN  /\ (k > 0 /\ events[k].t > events[j].t)
                    => ( Emits(j, "UNSAFE_LANE_CHANGE")
                           <=> Num(events[k]) < rules.min_follow_distance )
               /\ k = 0 => emitted[j] = <<>>
    /\ \A i \in Idx :
         (MovingAt(i) /\ LastStopBefore(i) = 0) => ~Emits(i, "ROLLING_STOP")

\* A distance below the minimum stamped 1.125 s, then a lane change stamped
\* 0.0625 s: the lane change is unsafe, and comes first in the returned list.
C11_Witness ==
    /\ pc = "returned"
    /\ Len(events) = 2
    /\ FollowAt(1) /\ Num(events[1]) < rules.min_follow_distance
    /\ LaneAt(2) /\ events[2].t < events[1].t
    /\ Emits(1, "TAILGATING") /\ Emits(2, "UNSAFE_LANE_CHANGE")
    /\ Val(ret) = emitted[2] \o emitted[1]

\* C12: a SPEED or FOLLOW_DISTANCE event whose argument is no number ends
\* the call with a ValueError at that event: the value is not coerced, the
\* event appends nothing and no list is returned.
C12_BadNumberAborts ==
    \A i \in Idx :
        (events[i].kind \in {"SPEED", "FOLLOW_DISTANCE"} /\ events[i].arg = NoNumber) =>
          /\ i = Len(events)
          /\ pc = "raised"
          /\ exc = ValueError
          /\ ret = NoResult
          /\ emitted[i] = <<>>

\* A SPEED event with no number after an event that had emitted a violation.
C12_Witness ==
    /\ pc = "raised"
    /\ Len(events) > 1
    /\ events[Len(events)].kind = "SPEED"
    /\ events[Len(events)].arg = NoNumber
    /\ emitted[1] /= <<>>
    /\ violations /= <<>>

\* ------------------------------------------------------------------------
\* parser.py: parse_time, and the time codec it forms with _fmt_time
\* ------------------------------------------------------------------------

\* The variables of the detector.
detector == <<pc, rules, events, last_follow, stop_detect_time, violations,
              emitted, ret, exc, mode, memo>>

\* A call of a function: its name and its argument; once it is done, what it
\* returned (None when it raised) and the exception it raised; when the
\* argument is the result of an earlier call, the argument of that call; and
\* the database as the call found it.
Pending(op, arg) ==
    [op |-> op, arg |-> arg, done |-> FALSE, out |-> None, exc |-> NoException,
     src |-> None, before |-> db]
Returned(op, arg, out, src) ==
    [op |-> op, arg |-> arg, done |-> TRUE, out |-> Some(out), exc |-> NoException,
     src |-> src, before |-> db]
Raised(op, arg, x, src) ==
    [op |-> op, arg |-> arg, done |-> TRUE, out |-> None, exc |-> x, src |-> src,
     before |-> db]

\* The detector at rest.
DetectorIdle ==
    /\ pc = "idle"
    /\ rules \in RuleSets
    /\ events = <<>>
    /\ last_follow = None
    /\ stop_detect_time = None
    /\ violations = <<>>
    /\ emitted = <<>>
    /\ ret = NoResult
    /\ exc = NoException
    /\ mode = "free"
    /\ memo = None

\* str.split(sep) for a one-character sep: the pieces between the
\* separators, one more than there are separators.
RECURSIVE Split(_, _)
Split(txt, c) ==
    IF txt = <<>> THEN << <<>> >>
    ELSE LET rest == Split(Tail(txt), c)
         IN  IF Head(txt) = c THEN << <<>> >> \o rest
             ELSE << <<Head(txt)>> \o Head(rest) >> \o Tail(rest)

\* int(text) for plain decimal text: an optional sign and at least one
\* digit: Some(n).  Anything else raises ValueError: None.
ParseInt(txt) ==
    LET signed == txt /= <<>> /\ Head(txt) \in {"-", "+"}
        mag    == IF signed THEN Tail(txt) ELSE txt
        ok     == mag /= <<>> /\ \A i \in 1..Len(mag) : IsDigit(mag[i])
    IN  IF ~ok THEN None
        ELSE IF signed /\ Head(txt) = "-" THEN Some(0 - DigitsValue(mag))
        ELSE Some(DigitsValue(mag))

\* Variant: the seconds are cut to whole seconds.
ParseTime_WholeSeconds(ts) ==
    LET parts   == Split(ts, ":")
        minutes == ParseInt(parts[1])
        seconds == ParseFloat(parts[2])
    IN  IF Len(parts) /= 2 THEN None
        ELSE IF minutes = None \/ seconds = None THEN None
        ELSE Some(Val(minutes) * 60 * TicksPerUnit
                  + (Val(seconds) \div TicksPerUnit) * TicksPerUnit)

\* parse_time(ts): Some(seconds, in ticks); None when it raises
\* ValueError("bad timestamp"), which every exception of the body becomes.
ParseTime(ts) ==
    LET parts   == Split(ts, ":")
        minutes == ParseInt(parts[1])
        seconds == ParseFloat(parts[2])
    IN  IF Len(parts) /= 2 THEN None
        ELSE IF minutes = None \/ seconds = None THEN None
        ELSE Some(Val(minutes) * 60 * TicksPerUnit + Val(seconds))

MaxSixteenths == 40  \* _fmt_time is applied to 0, 1/16, ..., MaxSixteenths/16 s

DigitSet == {"0", "1", "2", "3", "4", "5", "6", "7", "8", "9"}

\* Texts of the shape MM:SS.s: minutes 00, 01, 09, 50, 51 and 59, and every
\* seconds field from 00.0 to 99.9.
ShapedTexts ==
    { <<a, b, ":", c, d, ".", e>> :
        a \in {"0", "5"}, b \in {"0", "1", "9"}, c \in DigitSet, d \in DigitSet,
        e \in DigitSet }

\* Other arguments of parse_time: the examples of its docstring and of its
\* tests, signed parts, and parts that are no numbers.
OtherTexts ==
    { <<"0", ":", "0", "5">>, <<"1", ":", "0", "2", ".", "5">>, <<"0", ":", "0", "0">>,
      <<"1", "0", ":", "3", "0", ".", "1">>, <<"6", "0", ":", "0", "0", ".", "0">>,
      <<"1", "0", "0", ":", "0", "0", ".", "0">>,
      <<"b", "a", "d">>, <<"1", ":", "x", "x">>, <<"x", ":", "0", "5">>,
      <<"1", ":", "0", "1", ":", "0", "1", ".", "5">>, <<>>, <<"1", ":">>,
      <<":", "5">>, <<":">>, <<"1", "2">>, <<"1", ":", ".">>, <<"1", ":", "5", ".">>,
      <<"1", ":", ".", "5">>, <<"1", ".", "5", ":", "0", "0">>,
      <<"-", "1", ":", "3", "0", ".", "0">>, <<"1", ":", "-", "5">>,
      <<"-", ":", "0", "5">>, <<"1", ":", "-">> }

TimeTexts == ShapedTexts \cup OtherTexts

\* Arguments of _fmt_time, in ticks: the sixteenths from 0 on, and 59.9375,
\* 60.0, 62.5, 3599.9375, 3600.0 and 6000.0 s.
FmtArgs ==
    {5 * k : k \in 0..MaxSixteenths} \cup {4795, 4800, 5000, 287995, 288000, 480000}

\* One call of parse_time or of _fmt_time is about to be made.
CodecInit ==
    /\ DetectorIdle
    /\ db = None
    /\ \/ \E ts \in TimeTexts : call = Pending("parse_time", ts)
       \/ \E t \in FmtArgs : call = Pending("_fmt_time", t)

CallParseTime ==
    /\ ~call.done
    /\ call.op = "parse_time"
    /\ call' = IF ParseTime(call.arg) = None
               THEN Raised("parse_time", call.arg, ValueError, None)
               ELSE Returned("parse_time", call.arg, Val(ParseTime(call.arg)), None)
    /\ UNCHANGED <<detector, db>>

CallFmtTime ==
    /\ ~call.done
    /\ call.op = "_fmt_time"
    /\ call' = Returned("_fmt_time", call.arg, FmtTime(call.arg), None)
    /\ UNCHANGED <<detector, db>>

\* _fmt_time applied to what parse_time has just returned.
CallFmtTimeOfParsed ==
    /\ call.done
    /\ call.op = "parse_time"
    /\ call.out /= None
    /\ call' = Returned("_fmt_time", Val(call.out), FmtTime(Val(call.out)), Some(call.arg))
    /\ UNCHANGED <<detector, db>>

CodecNext ==
    \/ CallParseTime
    \/ CallFmtTime
    \/ CallFmtTimeOfParsed

CodecSpec == CodecInit /\ [][CodecNext]_vars

\* A text of the shape MM:SS.s whose minutes are below 60.
WellFormed(x) ==
    /\ Len(x) = 7
    /\ x[3] = ":" /\ x[6] = "."
    /\ \A i \in {1, 2, 4, 5, 7} : IsDigit(x[i])
    /\ x[1] \in {"0", "1", "2", "3", "4", "5"}

\* Its seconds are below 60 as well.
ClockSeconds(x) == x[4] \in {"0", "1", "2", "3", "4", "5"}

\* _fmt_time has been applied to the result of parse_time.
RoundTripped == call.done /\ call.op = "_fmt_time" /\ call.src /= None

\* C13 as stated: for every text x of the shape MM:SS.s with minutes below
\* 60, parse_time accepts x and _fmt_time(parse_time(x)) = x.
C13_RoundTripAnySeconds ==
    /\ (call.done /\ call.op = "parse_time" /\ WellFormed(call.arg)) => call.out /= None
    /\ (RoundTripped /\ WellFormed(Val(call.src))) => Val(call.out) = Val(call.src)

\* C13, amended: for every text x of the shape MM:SS.s with minutes below 60
\* and seconds below 60, parse_time accepts x and _fmt_time(parse_time(x)) = x.
C13_RoundTripClockSeconds ==
    /\ (call.done /\ call.op = "parse_time" /\ WellFormed(call.arg)) => call.out /= None
    /\ (RoundTripped /\ WellFormed(Val(call.src)) /\ ClockSeconds(Val(call.src)))
         => Val(call.out) = Val(call.src)

\* "59:59.9" has gone through parse_time and _fmt_time and come back.
C13_Witness ==
    /\ RoundTripped
    /\ Val(call.src) = <<"5", "9", ":", "5", "9", ".", "9">>
    /\ call.arg = 59 * 60 * TicksPerUnit + 59 * TicksPerUnit + 9 * (TicksPerUnit \div 10)
    /\ Val(call.out) = Val(call.src)

\* C14: for t >= 0, _fmt_time(t) is the decimal digits of floor(t / 60), at
\* least two of them and no more than needed beyond two (no wrap at 60:
\* 3600.0 gives "60:00.0"), then ":", then the seconds t - 60 * minutes
\* rounded to one decimal digit, in four characters: two digits, ".", one
\* digit.
C14_FmtTimeShape ==
    (call.done /\ call.op = "_fmt_time" /\ call.arg >= 0) =>
      LET t    == call.arg
          out  == Val(call.out)
          n    == Len(out)
          mins == SubSeq(out, 1, n - 5)
          m    == t \div (60 * TicksPerUnit)
          s    == t - m * 60 * TicksPerUnit
      IN  /\ n >= 7
          /\ out[n - 4] = ":" /\ out[n - 1] = "."
          /\ \A i \in 1..n : i \notin {n - 4, n - 1} => IsDigit(out[i])
          /\ DigitsValue(mins) = m
          /\ Len(mins) = 2 \/ mins[1] /= "0"
          /\ 100 * DigitVal(out[n - 3]) + 10 * DigitVal(out[n - 2]) + DigitVal(out[n])
               = RoundHalfEven(s, TicksPerUnit \div 10)
          /\ t = 3600 * TicksPerUnit => out = <<"6", "0", ":", "0", "0", ".", "0">>
          /\ t = 5000 => out = <<"0", "1", ":", "0", "2", ".", "5">>

\* _fmt_time(3600.0) has returned "60:00.0".
C14_Witness ==
    /\ call.done /\ call.op = "_fmt_time" /\ call.src = None
    /\ call.arg = 3600 * TicksPerUnit
    /\ Val(call.out) = <<"6", "0", ":", "0", "0", ".", "0">>

CountOf(txt, c) == Cardinality({i \in 1..Len(txt) : txt[i] = c})

\* C15: parse_time(x) raises ValueError when x has no ":" or more than one,
\* when the part before the ":" is not a non-negative integer, or when the
\* part after it is not a non-negative number (an empty part included);
\* otherwise it returns minutes * 60 + seconds.
C15_ParseTimeRejectsOrSums ==
    (call.done /\ call.op = "parse_time") =>
      LET x     == call.arg
          parts == Split(x, ":")
          m     == ParseInt(parts[1])
          s     == ParseFloat(parts[2])
          wrong == \/ CountOf(x, ":") /= 1
                   \/ m = None \/ s = None
                   \/ Val(m) < 0 \/ Val(s) < 0
      IN  IF wrong
          THEN call.exc = ValueError /\ call.out = None
          ELSE call.exc = NoException
               /\ call.out = Some(Val(m) * 60 * TicksPerUnit + Val(s))

\* ------------------------------------------------------------------------
\* storage.py
\* ------------------------------------------------------------------------

MaxRulesets == 3     \* most rows of the ruleset table
MaxScenarios == 2    \* most rows of the scenario table
MaxRows == 2         \* most rows of the violation table

AssertionError == "AssertionError"
IntegrityError == "IntegrityError"

\* The tables after init_db on a new database; the rows of a table are kept
\* in the order of their insertion.
EmptyTables == [ruleset |-> <<>>, scenario |-> <<>>, speed_zone |-> <<>>, violation |-> <<>>]

\* The key a table gives to a new row (cur.lastrowid): one more than the
\* largest key in use.
RECURSIVE MaxOf(_)
MaxOf(ns) == IF ns = <<>> THEN 0
             ELSE IF Head(ns) > MaxOf(Tail(ns)) THEN Head(ns) ELSE MaxOf(Tail(ns))
NextRowId(keys) == MaxOf(keys) + 1

RuleIds == [i \in 1..Len(db.ruleset) |-> db.ruleset[i].rule_id]
ScenarioIds == [i \in 1..Len(db.scenario) |-> db.scenario[i].scenario_id]
ZoneIds == [i \in 1..Len(db.speed_zone) |-> db.speed_zone[i].zone_id]
ViolationIds == [i \in 1..Len(db.violation) |-> db.violation[i].violation_id]

Range(f) == {f[i] : i \in DOMAIN f}

\* A foreign key holds when the row it names exists.
RulesetExists(rule_id) == rule_id \in Range(RuleIds)
ScenarioExists(scenario_id) == scenario_id \in Range(ScenarioIds)

\* Variant: with no database open the call does nothing and returns None.
NotInitialised_ReturnsNone(op, arg) ==
    /\ db = None
    /\ call' = Returned(op, arg, None, None)
    /\ UNCHANGED <<detector, db>>

\* _conn() with no database open: the assertion fails before anything is
\* read or written.
NotInitialised(op, arg) ==
    /\ db = None
    /\ call' = Raised(op, arg, AssertionError, None)
    /\ UNCHANGED <<detector, db>>

\* init_db on a new database.
InitDb ==
    /\ db = None
    /\ db' = EmptyTables
    /\ call' = Returned("init_db", None, None, None)
    /\ UNCHANGED detector

\* Variant: thresholds that agree to one decimal digit are the same ruleset.
SameRuleset_OneDecimal(row, r) ==
    /\ FormatF1(row.max_speed, 0) = FormatF1(r.max_speed, 0)
    /\ FormatF1(row.min_follow_distance, 0) = FormatF1(r.min_follow_distance, 0)
    /\ FormatF1(row.stop_sign_wait, 0) = FormatF1(r.stop_sign_wait, 0)

\* WHERE max_speed = ? AND min_follow_distance = ? AND stop_sign_wait = ?
SameRuleset(row, r) ==
    /\ row.max_speed = r.max_speed
    /\ row.min_follow_distance = r.min_follow_distance
    /\ row.stop_sign_wait = r.stop_sign_wait

UpsertRuleset(r) ==
    \/ NotInitialised("upsert_ruleset", r)
    \/ /\ db /= None
       /\ LET found == SelectSeq(db.ruleset, LAMBDA row : SameRuleset(row, r))
              id    == NextRowId(RuleIds)
          IN  IF found /= <<>>
              THEN /\ call' = Returned("upsert_ruleset", r, found[1].rule_id, None)
                   /\ UNCHANGED db
              ELSE /\ Len(db.ruleset) < MaxRulesets
                   /\ db' = [db EXCEPT !.ruleset =
                               Append(@, [rule_id |-> id, max_speed |-> r.max_speed,
                                          min_follow_distance |-> r.min_follow_distance,
                                          stop_sign_wait |-> r.stop_sign_wait])]
                   /\ call' = Returned("upsert_ruleset", r, id, None)
       /\ UNCHANGED detector

\* The speed_zone rows of a scenario, keyed from first on.
RECURSIVE ZoneRows(_, _, _)
ZoneRows(zones, scenario_id, first) ==
    IF zones = <<>> THEN <<>>
    ELSE << [zone_id |-> first, start_mile |-> Head(zones).start_mile,
             end_mile |-> Head(zones).end_mile, speed_limit |-> Head(zones).speed_limit,
             scenario_id |-> scenario_id] >>
         \o ZoneRows(Tail(zones), scenario_id, first + 1)

\* register_scenario: zones is None or Some(list).
RegisterScenario(name, description, source_file, rule_id, zones) ==
    LET arg == [name |-> name, description |-> description, source_file |-> source_file,
                rule_id |-> rule_id, zones |-> zones]
    IN  \/ NotInitialised("register_scenario", arg)
        \/ /\ db /= None
           /\ IF ~RulesetExists(rule_id)
              THEN /\ call' = Raised("register_scenario", arg, IntegrityError, None)
                   /\ UNCHANGED db
              ELSE LET scenario_id == NextRowId(ScenarioIds)
                       list == IF zones = None THEN <<>> ELSE Val(zones)
                   IN  /\ Len(db.scenario) < MaxScenarios
                       /\ db' = [db EXCEPT
                                   !.scenario =
                                      Append(@, [scenario_id |-> scenario_id, name |-> name,
                                                 description |-> description,
                                                 source_file |-> source_file,
                                                 ruleset_id |-> rule_id]),
                                   !.speed_zone =
                                      @ \o ZoneRows(list, scenario_id, NextRowId(ZoneIds))]
                       /\ call' = Returned("register_scenario", arg, scenario_id, None)
           /\ UNCHANGED detector

\* The violation rows of a report, keyed from first on, in list order.
RECURSIVE ViolationRows(_, _, _)
ViolationRows(vs, scenario_id, first) ==
    IF vs = <<>> THEN <<>>
    ELSE << [violation_id |-> first, scenario_id |-> scenario_id, tstamp |-> Head(vs).time,
             type |-> Head(vs).type, details |-> Head(vs).details] >>
         \o ViolationRows(Tail(vs), scenario_id, first + 1)

\* save_report: the first INSERT of a scenario that does not exist fails,
\* and nothing is inserted; an empty list inserts nothing and fails never.
SaveReport(scenario_id, vs) ==
    LET arg == [scenario_id |-> scenario_id, violations |-> vs]
    IN  \/ NotInitialised("save_report", arg)
        \/ /\ db /= None
           /\ IF vs /= <<>> /\ ~ScenarioExists(scenario_id)
              THEN /\ call' = Raised("save_report", arg, IntegrityError, None)
                   /\ UNCHANGED db
              ELSE /\ Len(db.violation) + Len(vs) <= MaxRows
                   /\ db' = [db EXCEPT !.violation =
                               @ \o ViolationRows(vs, scenario_id, NextRowId(ViolationIds))]
                   /\ call' = Returned("save_report", arg, None, None)
           /\ UNCHANGED detector

\* Variant: the rows of every scenario are counted.
OfScenario_Any(row, scenario_id) == TRUE

\* WHERE scenario_id = ?
OfScenario(row, scenario_id) == row.scenario_id = scenario_id

\* GROUP BY type with COUNT(*), read into a dict: the rows are gone through
\* one by one, a type seen for the first time gets a count of 1, a type seen
\* before has its count raised.
RECURSIVE Tally(_, _)
Tally(rows, counts) ==
    IF rows = <<>> THEN counts
    ELSE LET type == Head(rows).type
         IN  IF type \in DOMAIN counts
             THEN Tally(Tail(rows), [counts EXCEPT ![type] = @ + 1])
             ELSE Tally(Tail(rows), counts @@ (type :> 1))

\* The dict with no key.
EmptyDict == [type \in {} |-> 0]

GetViolationCounts(scenario_id) ==
    \/ NotInitialised("get_violation_counts", scenario_id)
    \/ /\ db /= None
       /\ LET rows == SelectSeq(db.violation, LAMBDA row : OfScenario(row, scenario_id))
          IN  call' = Returned("get_violation_counts", scenario_id,
                               Tally(rows, EmptyDict), None)
       /\ UNCHANGED <<detector, db>>

\* Code of a character, as the database compares text: byte by byte.
CharCode(c) ==
    CASE c = "-" -> 45 [] c = "." -> 46 [] c = ":" -> 58
      [] IsDigit(c) -> 48 + DigitVal(c)

\* a < b for two texts.
RECURSIVE TextLess(_, _)
TextLess(a, b) ==
    IF b = <<>> THEN FALSE
    ELSE IF a = <<>> THEN TRUE
    ELSE IF Head(a) /= Head(b) THEN CharCode(Head(a)) < CharCode(Head(b))
    ELSE TextLess(Tail(a), Tail(b))

\* The arrangements of n rows.
Arrangements(n) == {p \in [1..n -> 1..n] : \A i, j \in 1..n : p[i] = p[j] => i = j}

\* Variant: the rows come in the order of their insertion.
InTstampOrder_AsInserted(rows, p) == \A i \in 1..Len(rows) : p[i] = i

\* ORDER BY tstamp: no row comes before a row of smaller tstamp; the order
\* of rows of equal tstamp is the database's choice.
InTstampOrder(rows, p) ==
    \A i, j \in 1..Len(rows) : i < j => ~TextLess(rows[p[j]].tstamp, rows[p[i]].tstamp)

GetViolationsByType(scenario_id, vtype) ==
    LET arg == [scenario_id |-> scenario_id, vtype |-> vtype]
    IN  \/ NotInitialised("get_violations_by_type", arg)
        \/ /\ db /= None
           /\ LET rows == SelectSeq(db.violation,
                            LAMBDA row : row.scenario_id = scenario_id /\ row.type = vtype)
              IN  \E p \in Arrangements(Len(rows)) :
                      /\ InTstampOrder(rows, p)
                      /\ call' = Returned("get_violations_by_type", arg,
                                   [i \in 1..Len(rows) |->
                                      [time |-> rows[p[i]].tstamp, type |-> rows[p[i]].type,
                                       details |-> rows[p[i]].details]],
                                   None)
           /\ UNCHANGED <<detector, db>>

\* The row of the largest violation_id.
Newest(rows) ==
    CHOOSE i \in 1..Len(rows) :
        \A j \in 1..Len(rows) : rows[j].violation_id <= rows[i].violation_id

\* Variant: the row of the smallest violation_id.
Latest_Oldest(rows) ==
    CHOOSE i \in 1..Len(rows) :
        \A j \in 1..Len(rows) : rows[i].violation_id <= rows[j].violation_id

\* The row ORDER BY violation_id DESC puts first.
Latest(rows) == Newest(rows)

\* ORDER BY violation_id DESC LIMIT limit, for limit >= 0.
RECURSIVE Recent(_, _)
Recent(rows, limit) ==
    IF limit = 0 \/ rows = <<>> THEN <<>>
    ELSE LET i == Latest(rows)
         IN  << [scenario_id |-> rows[i].scenario_id, time |-> rows[i].tstamp,
                 type |-> rows[i].type, details |-> rows[i].details] >>
             \o Recent(SubSeq(rows, 1, i - 1) \o SubSeq(rows, i + 1, Len(rows)), limit - 1)

GetRecentViolations(limit) ==
    \/ NotInitialised("get_recent_violations", limit)
    \/ /\ db /= None
       /\ call' = Returned("get_recent_violations", limit, Recent(db.violation, limit), None)
       /\ UNCHANGED <<detector, db>>

\* Rulesets: 60.0 / 10.0 / 1.0, and three more that differ from it in one
\* threshold by 1/80.
BaseRules ==
    [max_speed |-> 60 * TicksPerUnit, min_follow_distance |-> 10 * TicksPerUnit,
     stop_sign_wait |-> TicksPerUnit]
StoreRules ==
    { BaseRules,
      [BaseRules EXCEPT !.max_speed = @ + 1],
      [BaseRules EXCEPT !.min_follow_distance = @ + 1],
      [BaseRules EXCEPT !.stop_sign_wait = @ + 1] }

\* Arguments of register_scenario.
ScenarioName == <<"D", "r", "i", "v", "e">>
ZoneLists ==
    { None,
      Some(<< [start_mile |-> 0, end_mile |-> TicksPerUnit, speed_limit |-> 25 * TicksPerUnit] >>) }

\* Violation records as save_report gets them.  By their text the times are
\* in the order "00:01.0" < "100:00.0" < "99:59.9".
StoredViolations ==
    { [type |-> "SPEEDING", time |-> <<"9", "9", ":", "5", "9", ".", "9">>,
       details |-> Lit("61.0 mph in 60 mph zone")],
      [type |-> "SPEEDING", time |-> <<"1", "0", "0", ":", "0", "0", ".", "0">>,
       details |-> Lit("62.0 mph in 60 mph zone")],
      [type |-> "TAILGATING", time |-> <<"0", "0", ":", "0", "1", ".", "0">>,
       details |-> Lit("9.9 m < 10.0 m")] }

\* Reports of no, one and two different violations.
ReportLists ==
    {<<>>} \cup {<<v>> : v \in StoredViolations}
           \cup {pair \in StoredViolations \X StoredViolations : pair[1] /= pair[2]}

QueriedTypes == {"SPEEDING", "TAILGATING", "NONEXISTENT"}

\* The scenario ids that are asked for, whether or not a scenario has them
\* yet, and the limits: no row, one row, as many as the table can hold.
AskedIds == 1..MaxScenarios
Limits == {0, 1, MaxRows}

\* upsert_ruleset alone, on every ruleset.
RulesetNext ==
    \/ InitDb
    \/ \E r \in StoreRules : UpsertRuleset(r)

StorageInit ==
    /\ DetectorIdle
    /\ db = None
    /\ call = None

RulesetSpec == StorageInit /\ [][RulesetNext]_vars

\* Every function of the module, on one ruleset.
StorageNext ==
    \/ InitDb
    \/ UpsertRuleset(BaseRules)
    \/ \E rule_id \in 1..2, zones \in ZoneLists :
         RegisterScenario(ScenarioName, <<>>, Lit("log.txt"), rule_id, zones)
    \/ \E scenario_id \in AskedIds, vs \in ReportLists : SaveReport(scenario_id, vs)
    \/ \E scenario_id \in AskedIds : GetViolationCounts(scenario_id)
    \/ \E scenario_id \in AskedIds, vtype \in QueriedTypes :
         GetViolationsByType(scenario_id, vtype)
    \/ \E limit \in Limits : GetRecentViolations(limit)

StorageSpec == StorageInit /\ [][StorageNext]_vars

\* The three thresholds of a ruleset, or of a row of the ruleset table.
Triple(x) == <<x.max_speed, x.min_follow_distance, x.stop_sign_wait>>

\* C16: a call of upsert_ruleset whose three thresholds are those of a
\* stored row returns the id of that row and inserts nothing; any other call
\* inserts one row with these thresholds and returns its id, which no other
\* row has; so the table never holds two rows of the same thresholds, and
\* thresholds that differ in any field, by however little, get different
\* ids.
C16_UpsertDeduplicates ==
    (call /= None /\ call.done /\ call.op = "upsert_ruleset" /\ db /= None) =>
      LET r      == call.arg
          before == call.before.ruleset
          after  == db.ruleset
          stored == {i \in 1..Len(before) : Triple(before[i]) = Triple(r)}
          n      == Len(after)
      IN  /\ call.exc = NoException
          /\ IF stored /= {}
             THEN /\ after = before
                  /\ \E i \in stored : call.out = Some(before[i].rule_id)
             ELSE /\ n = Len(before) + 1
                  /\ SubSeq(after, 1, n - 1) = before
                  /\ Triple(after[n]) = Triple(r)
                  /\ call.out = Some(after[n].rule_id)
          /\ \A i, j \in 1..n :
               i /= j => /\ Triple(after[i]) /= Triple(after[j])
                         /\ after[i].rule_id /= after[j].rule_id
          /\ \A i \in 1..n :
               call.out = Some(after[i].rule_id) <=> Triple(after[i]) = Triple(r)

\* Three rulesets are stored, the second and the third 1/80 away from the
\* first in one threshold, and a call with the thresholds of the first has
\* returned the id of the first.
C16_Witness ==
    /\ db /= None
    /\ Len(db.ruleset) = 3
    /\ Triple(db.ruleset[1]) = Triple(BaseRules)
    /\ Triple(db.ruleset[2]) = Triple([BaseRules EXCEPT !.min_follow_distance = @ + 1])
    /\ call.done /\ call.op = "upsert_ruleset"
    /\ call.arg = BaseRules
    /\ call.out = Some(db.ruleset[1].rule_id)

\* The rows of the violation table, by position, of a scenario and a type.
RowsOf(scenario_id, type) ==
    {i \in 1..Len(db.violation) :
        db.violation[i].scenario_id = scenario_id /\ db.violation[i].type = type}

StoredTypes == {db.violation[i].type : i \in 1..Len(db.violation)}

\* C17: get_violation_counts(scenario_id) returns a mapping whose keys are
\* the types that have a stored violation of that scenario and whose values
\* are the numbers of these violations; violations of other scenarios are
\* not counted.
C17_CountsPerScenario ==
    (call /= None /\ call.done /\ call.op = "get_violation_counts" /\ db /= None) =>
      LET out == Val(call.out)
      IN  /\ call.exc = NoException
          /\ DOMAIN out = {type \in StoredTypes : RowsOf(call.arg, type) /= {}}
          /\ \A type \in DOMAIN out : out[type] = Cardinality(RowsOf(call.arg, type))

\* Two scenarios with one SPEEDING violation each: the count of the first
\* scenario is 1.
C17_Witness ==
    /\ db /= None
    /\ call.done /\ call.op = "get_violation_counts"
    /\ call.arg = 1
    /\ Len(db.violation) = 2
    /\ db.violation[1].scenario_id = 1 /\ db.violation[2].scenario_id = 2
    /\ db.violation[1].type = "SPEEDING" /\ db.violation[2].type = "SPEEDING"
    /\ Val(call.out) = ("SPEEDING" :> 1)

\* What a query returns of a row.
TimeTypeDetails(row) == [time |-> row.tstamp, type |-> row.type, details |-> row.details]

\* C18: get_violations_by_type(scenario_id, vtype) returns the stored
\* violations of that scenario and that type, each once, as {time, type,
\* details}, and no other (an empty list when there is none), in ascending
\* order of the text of the time.
C18_ByTypeInTextOrder ==
    (call /= None /\ call.done /\ call.op = "get_violations_by_type" /\ db /= None) =>
      LET out  == Val(call.out)
          rows == RowsOf(call.arg.scenario_id, call.arg.vtype)
      IN  /\ call.exc = NoException
          /\ Len(out) = Cardinality(rows)
          /\ \E p \in [1..Len(out) -> rows] :
               /\ \A i, j \in 1..Len(out) : p[i] = p[j] => i = j
               /\ \A i \in 1..Len(out) : out[i] = TimeTypeDetails(db.violation[p[i]])
          /\ \A i, j \in 1..Len(out) : i < j => ~TextLess(out[j].time, out[i].time)

\* "99:59.9" was stored before "100:00.0" and comes back after it.
C18_Witness ==
    /\ db /= None
    /\ call.done /\ call.op = "get_violations_by_type"
    /\ Len(db.violation) = 2
    /\ db.violation[1].tstamp = <<"9", "9", ":", "5", "9", ".", "9">>
    /\ db.violation[2].tstamp = <<"1", "0", "0", ":", "0", "0", ".", "0">>
    /\ Val(call.out) = <<TimeTypeDetails(db.violation[2]), TimeTypeDetails(db.violation[1])>>

Min(a, b) == IF a < b THEN a ELSE b

\* C19: save_report appends its violations to the stored ones in the order
\* of its list, and get_recent_violations(limit) returns min(limit, number of
\* stored violations) records of any scenario: the last stored first, then
\* the one stored before it, and so on.
C19_RecentNewestFirst ==
    /\ (call /= None /\ call.done /\ call.op = "save_report" /\ call.exc = NoException) =>
         LET vs == call.arg.violations
             n  == Len(call.before.violation)
         IN  /\ Len(db.violation) = n + Len(vs)
             /\ SubSeq(db.violation, 1, n) = call.before.violation
             /\ \A k \in 1..Len(vs) :
                  /\ TimeTypeDetails(db.violation[n + k]) = vs[k]
                  /\ db.violation[n + k].scenario_id = call.arg.scenario_id
    /\ (call /= None /\ call.done /\ call.op = "get_recent_violations" /\ db /= None) =>
         LET out == Val(call.out)
             n   == Len(db.violation)
         IN  /\ db = call.before
             /\ call.exc = NoException
             /\ Len(out) = Min(call.arg, n)
             /\ \A k \in 1..Len(out) :
                  LET row == db.violation[n + 1 - k]
                  IN  out[k] = [scenario_id |-> row.scenario_id, time |-> row.tstamp,
                                type |-> row.type, details |-> row.details]

\* Two violations of two scenarios are stored and the limit is 1: the one
\* stored last comes back, alone.
C19_Witness ==
    /\ db /= None
    /\ call.done /\ call.op = "get_recent_violations"
    /\ call.arg = 1
    /\ Len(db.violation) = 2
    /\ db.violation[1].scenario_id /= db.violation[2].scenario_id
    /\ Len(Val(call.out)) = 1
    /\ Val(call.out)[1].time = db.violation[2].tstamp
    /\ Val(call.out)[1].scenario_id = db.violation[2].scenario_id

\* ------------------------------------------------------------------------
\* report.py
\* ------------------------------------------------------------------------

Whitespace == {" ", "\t", "\n"}

\* str.strip(): the text without the whitespace at its two ends.
RECURSIVE StripLeft(_)
StripLeft(txt) ==
    IF txt /= <<>> /\ Head(txt) \in Whitespace THEN StripLeft(Tail(txt)) ELSE txt
RECURSIVE StripRight(_)
StripRight(txt) ==
    IF txt /= <<>> /\ txt[Len(txt)] \in Whitespace
    THEN StripRight(SubSeq(txt, 1, Len(txt) - 1)) ELSE txt
Strip(txt) == StripRight(StripLeft(txt))

\* A dict is a function of its keys; d.get(key) is None for a key it lacks.
Get(d, key) == IF key \in DOMAIN d THEN d[key] ELSE None

\* Variant: a name that is not blank is used as it stands, blanks included.
ReportName_Untrimmed(scenario) ==
    IF scenario = None THEN Lit("Unnamed")
    ELSE LET name == Get(Val(scenario), "name")
         IN  IF name = None \/ Val(name) = <<>> \/ Strip(Val(name)) = <<>>
             THEN Lit("Unnamed")
             ELSE Val(name)

\* The name of the report: a name is None or Some(text).
ReportName(scenario) ==
    IF scenario = None THEN Lit("Unnamed")
    ELSE LET name == Get(Val(scenario), "name")
         IN  IF name = None \/ Val(name) = <<>> \/ Strip(Val(name)) = <<>>
             THEN Lit("Unnamed")
             ELSE Strip(Val(name))

\* Variant: the report lists the violations in the order of their times.
MakeReport_Sorted(scenario, vs) ==
    [scenario |-> ReportName(scenario), violations |-> SortViolations(vs),
     total_violations |-> Len(vs)]

\* make_report(scenario, violations): scenario is None or Some(dict).
MakeReport(scenario, vs) ==
    [scenario |-> ReportName(scenario), violations |-> vs, total_violations |-> Len(vs)]

\* Scenarios: none, one with no name, with a null name, with an empty name,
\* with a name of blanks, and with names with and without blanks around.
NoKeys == [key \in {} |-> None]
ReportScenarios ==
    { None, Some(NoKeys) }
    \cup { Some("name" :> name) :
             name \in { None, Some(<<>>), Some(<<" ", "\t">>), Some(<<"D", "r", "i", "v", "e">>),
                        Some(<<" ", "D", "r", "i", "v", "e", " ", "\n">>),
                        Some(<<"a", " ", "b">>) } }

\* One call of make_report is about to be made.
ReportInit ==
    /\ DetectorIdle
    /\ db = None
    /\ \E scenario \in ReportScenarios, vs \in ReportLists :
         call = Pending("make_report", [scenario |-> scenario, violations |-> vs])

CallMakeReport ==
    /\ ~call.done
    /\ call.op = "make_report"
    /\ call' = Returned("make_report", call.arg,
                        MakeReport(call.arg.scenario, call.arg.violations), None)
    /\ UNCHANGED <<detector, db>>

ReportNext == CallMakeReport

ReportSpec == ReportInit /\ [][ReportNext]_vars

\* C20: the report holds the violation list as it was given, the same
\* elements in the same order, and total_violations is the length of that
\* list, whatever the scenario, a null one included.
C20_ReportKeepsList ==
    (call.done /\ call.op = "make_report") =>
      LET out == Val(call.out)
          vs  == call.arg.violations
      IN  /\ call.exc = NoException
          /\ Len(out.violations) = Len(vs)
          /\ \A i \in 1..Len(vs) : out.violations[i] = vs[i]
          /\ out.total_violations = Len(vs)
          /\ DOMAIN out = {"scenario", "violations", "total_violations"}

\* A report of a null scenario and two violations, the later one first.
C20_Witness ==
    /\ call.done /\ call.op = "make_report"
    /\ call.arg.scenario = None
    /\ Len(call.arg.violations) = 2
    /\ SortKey(call.arg.violations[1]) > SortKey(call.arg.violations[2])
    /\ Val(call.out).violations = call.arg.violations
    /\ Val(call.out).total_violations = 2

\* A text of whitespace only (the empty text included).
AllBlank(txt) == \A i \in 1..Len(txt) : txt[i] \in Whitespace

\* r is txt without the whitespace at its two ends: r stands in txt between
\* two runs of whitespace and neither begins nor ends with whitespace.
TrimOf(r, txt) ==
    /\ r /= <<>>
    /\ r[1] \notin Whitespace /\ r[Len(r)] \notin Whitespace
    /\ \E lead \in 0..Len(txt) :
         /\ lead + Len(r) <= Len(txt)
         /\ SubSeq(txt, lead + 1, lead + Len(r)) = r
         /\ AllBlank(SubSeq(txt, 1, lead))
         /\ AllBlank(SubSeq(txt, lead + Len(r) + 1, Len(txt)))

\* C21: the scenario name of the report is "Unnamed" for a null scenario, a
\* scenario with no name, a null name, an empty name and a name of
\* whitespace only; for any other name it is the name without the
\* whitespace around it.
C21_NameResolution ==
    (call.done /\ call.op = "make_report") =>
      LET scenario == call.arg.scenario
          out      == Val(call.out).scenario
          nameless == \/ scenario = None
                      \/ "name" \notin DOMAIN Val(scenario)
                      \/ Val(scenario)["name"] = None
                      \/ AllBlank(Val(Val(scenario)["name"]))
      IN  IF nameless THEN out = Lit("Unnamed")
          ELSE TrimOf(out, Val(Val(scenario)["name"]))

\* A report of the scenario named " Drive \n": its name is "Drive".
C21_Witness ==
    /\ call.done /\ call.op = "make_report"
    /\ call.arg.scenario = Some("name" :> Some(<<" ", "D", "r", "i", "v", "e", " ", "\n">>))
    /\ Val(call.out).scenario = <<"D", "r", "i", "v", "e">>

\* ------------------------------------------------------------------------
\* parser.py: read_log
\* ------------------------------------------------------------------------

MaxLines == 2        \* most lines of a log file

\* str.split(): the words of a text, the pieces between runs of whitespace.
RECURSIVE WordEnd(_, _)
WordEnd(txt, i) ==
    IF i > Len(txt) \/ txt[i] \in Whitespace THEN i - 1 ELSE WordEnd(txt, i + 1)
RECURSIVE Tokens(_)
Tokens(txt) ==
    LET rest == StripLeft(txt)
        k    == WordEnd(rest, 1)
    IN  IF rest = <<>> THEN <<>>
        ELSE <<SubSeq(rest, 1, k)>> \o Tokens(SubSeq(rest, k + 1, Len(rest)))

\* What the loop body does with one line: nothing, or it yields an event,
\* or it raises ValueError.
Skipped == [raise |-> FALSE, yield |-> <<>>]
Yielded(t, kind, arg) == [raise |-> FALSE, yield |-> <<Event(t, kind, arg)>>]
BadLine == [raise |-> TRUE, yield |-> <<>>]

\* SPEED and FOLLOW_DISTANCE: three tokens, and float(tokens[2]) succeeds.
NumberLineOk(tokens) == Len(tokens) = 3 /\ ParseFloat(tokens[3]) /= None

\* Variant: any third token is a direction.
LaneLineOk_AnyDirection(tokens) == Len(tokens) = 3

\* LANE_CHANGE: three tokens, the third LEFT or RIGHT.
LaneLineOk(tokens) ==
    Len(tokens) = 3 /\ tokens[3] \in {<<"L", "E", "F", "T">>, <<"R", "I", "G", "H", "T">>}

\* STOP_SIGN_DETECTED: two tokens.
StopLineOk(tokens) == Len(tokens) = 2

\* The body of the loop for one line of the file.  A kind word of the
\* grammar is held as one element of the text.
ReadLine(text) ==
    LET line   == Strip(text)
        tokens == Tokens(line)
        kind   == tokens[2]
        time   == ParseTime(tokens[1])
    IN  IF line = <<>> THEN Skipped
        ELSE IF Len(tokens) < 2 THEN BadLine
        ELSE IF time = None THEN BadLine
        ELSE IF kind = Lit("SPEED")
             THEN IF NumberLineOk(tokens) THEN Yielded(Val(time), "SPEED", tokens[3])
                  ELSE BadLine
        ELSE IF kind = Lit("FOLLOW_DISTANCE")
             THEN IF NumberLineOk(tokens)
                  THEN Yielded(Val(time), "FOLLOW_DISTANCE", tokens[3])
                  ELSE BadLine
        ELSE IF kind = Lit("LANE_CHANGE")
             THEN IF LaneLineOk(tokens) THEN Yielded(Val(time), "LANE_CHANGE", tokens[3])
                  ELSE BadLine
        ELSE IF kind = Lit("STOP_SIGN_DETECTED")
             THEN IF StopLineOk(tokens) THEN Yielded(Val(time), "STOP_SIGN_DETECTED", <<>>)
                  ELSE BadLine
        ELSE BadLine

\* The generator of read_log on a file: the lines it has consumed, the
\* events it has yielded so far, and how it ended.
Reading(file, n, yielded) ==
    [op |-> "read_log", arg |-> file, done |-> FALSE, out |-> Some(yielded),
     exc |-> NoException, src |-> None, before |-> db, line |-> n]
ReadingEnded(file, n, yielded, x) ==
    [op |-> "read_log", arg |-> file, done |-> TRUE, out |-> Some(yielded),
     exc |-> x, src |-> None, before |-> db, line |-> n]

ReadLogLine ==
    /\ call.op = "read_log"
    /\ ~call.done
    /\ call.line < Len(call.arg)
    /\ LET n == call.line + 1
           r == ReadLine(call.arg[n])
       IN  call' = IF r.raise
                   THEN ReadingEnded(call.arg, n, Val(call.out), ValueError)
                   ELSE Reading(call.arg, n, Val(call.out) \o r.yield)
    /\ UNCHANGED <<detector, db>>

\* The file is exhausted: the generator ends.
ReadLogEnd ==
    /\ call.op = "read_log"
    /\ ~call.done
    /\ call.line = Len(call.arg)
    /\ call' = ReadingEnded(call.arg, call.line, Val(call.out), NoException)
    /\ UNCHANGED <<detector, db>>

\* Pieces of log lines.
Sp == <<" ">>
T005 == <<"0", ":", "0", "5">>
T1025 == <<"1", ":", "0", "2", ".", "5">>
N60 == <<"6", "0", ".", "0">>
N9875 == <<"9", ".", "8", "7", "5">>
LeftWord == <<"L", "E", "F", "T">>
RightWord == <<"R", "I", "G", "H", "T">>

\* Lines of a log: blank ones; one of each kind as the grammar has it, with
\* blanks around and between; and lines off the grammar in each way.
BlankLines == { <<>>, <<"\n">>, <<" ", "\t", "\n">> }
GoodLines ==
    { T005 \o Sp \o Lit("SPEED") \o Sp \o N60 \o <<"\n">>,
      <<" ">> \o T1025 \o <<" ", "\t">> \o Lit("FOLLOW_DISTANCE") \o Sp \o N9875 \o <<" ", "\n">>,
      T005 \o Sp \o Lit("LANE_CHANGE") \o Sp \o LeftWord,
      T1025 \o Sp \o Lit("LANE_CHANGE") \o Sp \o RightWord,
      T1025 \o Sp \o Lit("STOP_SIGN_DETECTED") \o <<"\n">>,
      T005 \o Sp \o Lit("SPEED") \o Sp \o <<"-", "5">> }
OffLines ==
    { T005, Lit("SPEED"),
      <<"x", ":", "0", "5">> \o Sp \o Lit("SPEED") \o Sp \o N60,
      <<"5">> \o Sp \o Lit("STOP_SIGN_DETECTED"),
      <<"1", ":", "0", "1", ":", "0", "1">> \o Sp \o Lit("HONK"),
      T005 \o Sp \o Lit("SPEED"),
      T005 \o Sp \o Lit("SPEED") \o Sp \o N60 \o Sp \o N60,
      T005 \o Sp \o Lit("SPEED") \o Sp \o <<"f", "a", "s", "t">>,
      T005 \o Sp \o Lit("FOLLOW_DISTANCE"),
      T005 \o Sp \o Lit("FOLLOW_DISTANCE") \o Sp \o N9875 \o Sp \o <<"m">>,
      T005 \o Sp \o Lit("FOLLOW_DISTANCE") \o Sp \o <<"1", ".", "2", ".", "3">>,
      T005 \o Sp \o Lit("LANE_CHANGE"),
      T005 \o Sp \o Lit("LANE_CHANGE") \o Sp \o LeftWord \o Sp \o RightWord,
      T005 \o Sp \o Lit("LANE_CHANGE") \o Sp \o <<"U", "P">>,
      T005 \o Sp \o Lit("LANE_CHANGE") \o Sp \o <<"l", "e", "f", "t">>,
      T005 \o Sp \o Lit("STOP_SIGN_DETECTED") \o Sp \o N60,
      T005 \o Sp \o Lit("HONK"),
      T005 \o Sp \o Lit("HONK") \o Sp \o N60,
      T005 \o Sp \o Lit("speed") \o Sp \o N60,
      T005 \o Sp \o Lit("SPEED") \o <<"1">> \o Sp \o N60 }

LogLines == BlankLines \cup GoodLines \cup OffLines

RECURSIVE SeqsUpTo(_, _)
SeqsUpTo(S, n) ==
    IF n = 0 THEN {<<>>}
    ELSE LET shorter == SeqsUpTo(S, n - 1)
         IN  shorter \cup {Append(s, x) : s \in shorter, x \in S}

LogFiles == SeqsUpTo(LogLines, MaxLines)

\* read_log is about to be iterated on a file.
ReaderInit ==
    /\ DetectorIdle
    /\ db = None
    /\ \E file \in LogFiles : call = Reading(file, 0, <<>>)

ReaderNext ==
    \/ ReadLogLine
    \/ ReadLogEnd

ReaderSpec == ReaderInit /\ [][ReaderNext]_vars

\* The kind words of the grammar.
NumberKinds == {Lit("SPEED"), Lit("FOLLOW_DISTANCE")}
LaneKind == Lit("LANE_CHANGE")
StopKind == Lit("STOP_SIGN_DETECTED")

\* A line that is not blank and is off the grammar.
Deviates(line) ==
    LET w == Tokens(line)
    IN  \/ Len(w) < 2
        \/ ParseTime(w[1]) = None
        \/ w[2] \in NumberKinds /\ (Len(w) /= 3 \/ ParseFloat(w[3]) = None)
        \/ w[2] = LaneKind /\ (Len(w) /= 3 \/ w[3] \notin {LeftWord, RightWord})
        \/ w[2] = StopKind /\ Len(w) /= 2
        \/ w[2] \notin NumberKinds \cup {LaneKind, StopKind}

\* The event of a line of the grammar.
EventOfLine(line) ==
    LET w == Tokens(line)
    IN  Event(Val(ParseTime(w[1])), w[2][1], IF w[2] = StopKind THEN <<>> ELSE w[3])

\* The events of the first n lines of a file, blank lines left out.
RECURSIVE EventsOfLines(_, _)
EventsOfLines(file, n) ==
    IF n = 0 THEN <<>>
    ELSE IF AllBlank(file[n]) \/ Deviates(file[n]) THEN EventsOfLines(file, n - 1)
    ELSE Append(EventsOfLines(file, n - 1), EventOfLine(file[n]))

TypeError == "TypeError"

\* A JSON value as json.load returns it: None, a number (in ticks), a str, a
\* list or a dict; every value has a slot for each type, so that any two
\* can be compared.
JNull == [type |-> "null", num |-> 0, text |-> <<>>, items |-> <<>>, fields |-> NoKeys]
JNum(n) == [type |-> "number", num |-> n, text |-> <<>>, items |-> <<>>, fields |-> NoKeys]
JStr(txt) == [type |-> "string", num |-> 0, text |-> txt, items |-> <<>>, fields |-> NoKeys]
JList(items) == [type |-> "list", num |-> 0, text |-> <<>>, items |-> items, fields |-> NoKeys]
JObj(fields) == [type |-> "dict", num |-> 0, text |-> <<>>, items |-> <<>>, fields |-> fields]

\* How a call ends: with a value, or with an exception.
Gives(x) == [exc |-> NoException, val |-> Some(x)]
Fails(x) == [exc |-> x, val |-> None]

\* Variant: stop_sign_wait is not required.
RequiredKeys_NoWait == {"max_speed", "min_follow_distance"}

\* required_keys.
RequiredKeys == {"max_speed", "min_follow_distance", "stop_sign_wait"}

\* data.setdefault("speed_zones", []).
WithDefaultZones(d) ==
    IF "speed_zones" \in DOMAIN d.fields THEN d
    ELSE JObj(d.fields @@ ("speed_zones" :> JList(<<>>)))

\* load_scenario on a file whose content is no JSON (None) or the JSON value
\* Some(d).  A top-level value that is no container fails at the first "in"
\* with TypeError, a top-level list at the first "in" or at the subscript.
LoadScenario(content) ==
    IF content = None THEN Fails(ValueError)
    ELSE LET data == Val(content)
         IN  IF data.type \in {"null", "number"} THEN Fails(TypeError)
             ELSE IF data.type = "list"
                  THEN IF \E i \in 1..Len(data.items) :
                             data.items[i] = JStr(Lit("road_rules"))
                       THEN Fails(TypeError) ELSE Fails(ValueError)
             ELSE IF "road_rules" \notin DOMAIN data.fields THEN Fails(ValueError)
             ELSE LET road_rules == data.fields["road_rules"]
                  IN  IF road_rules.type /= "dict" THEN Fails(ValueError)
                      ELSE IF \E key \in RequiredKeys : key \notin DOMAIN road_rules.fields
                           THEN Fails(ValueError)
                      ELSE IF WithDefaultZones(data).fields["speed_zones"].type /= "list"
                           THEN Fails(ValueError)
                      ELSE Gives(WithDefaultZones(data))

\* Values of a threshold: 60.0, 10.0 and 1.0 as numbers, 60.0 as a str, a
\* str that is no number, null and a list.
Sixty == JNum(60 * TicksPerUnit)
Ten == JNum(10 * TicksPerUnit)
One == JNum(TicksPerUnit)
NotNumeric == { JStr(<<"f", "a", "s", "t">>), JNull, JList(<<>>) }
ThresholdValues == { Sixty, JStr(N60) } \cup NotNumeric

\* An optional entry of a dict, and the dict of the entries that are there.
Opt(S) == {None} \cup {Some(x) : x \in S}
DictOf(opt) == [key \in {k \in DOMAIN opt : opt[k] /= None} |-> Val(opt[key])]

\* Values of road_rules: dicts with each threshold there or not, and values
\* that are no dict.
RoadRuleValues ==
    { JObj(DictOf(opt)) :
        opt \in [max_speed : Opt(ThresholdValues),
                 min_follow_distance : Opt({Ten, JNull}),
                 stop_sign_wait : Opt({One, JStr(<<"f", "a", "s", "t">>)})] }
    \cup { JNull, JList(<<>>), Sixty, JStr(Lit("road_rules")) }

AZone ==
    JObj([start_mile |-> JNum(0), end_mile |-> JNum(TicksPerUnit),
          speed_limit |-> JNum(25 * TicksPerUnit)])

\* Values of speed_zones.
ZoneValues == { JList(<<>>), JList(<<AZone>>), JNull, JObj(NoKeys), JStr(<<>>) }

\* Contents of a scenario file: no JSON; values that are no dict; and dicts
\* with and without road_rules, speed_zones and a name.
ScenarioFiles ==
    { None, Some(JNull), Some(Sixty), Some(JList(<<>>)),
      Some(JList(<<JStr(Lit("road_rules"))>>)) }
    \cup { Some(JObj(DictOf(opt))) :
             opt \in [road_rules : Opt(RoadRuleValues),
                      speed_zones : Opt(ZoneValues),
                      name : Opt({JStr(<<"D", "r", "i", "v", "e">>)})] }

\* load_scenario is about to be called on a file.
LoaderInit ==
    /\ DetectorIdle
    /\ db = None
    /\ \E content \in ScenarioFiles : call = Pending("load_scenario", content)

CallLoadScenario ==
    /\ ~call.done
    /\ call.op = "load_scenario"
    /\ LET r == LoadScenario(call.arg)
       IN  call' = IF r.exc = NoException
                   THEN Returned("load_scenario", call.arg, Val(r.val), None)
                   ELSE Raised("load_scenario", call.arg, r.exc, None)
    /\ UNCHANGED <<detector, db>>

LoaderNext == CallLoadScenario

LoaderSpec == LoaderInit /\ [][LoaderNext]_vars

\* load_scenario has ended on a file that holds a JSON object.
LoadedDict ==
    /\ call.done /\ call.op = "load_scenario"
    /\ call.arg /= None /\ Val(call.arg).type = "dict"

\* C23: load_scenario fails with ValueError when the file has no road_rules
\* key, when road_rules is no object, when road_rules lacks max_speed,
\* min_follow_distance or stop_sign_wait, and when speed_zones is there but
\* is no list; otherwise it returns the scenario of the file, with a
\* speed_zones list, which is empty when the file had none.
C23_LoadScenarioValidates ==
    LoadedDict =>
      LET f     == Val(call.arg).fields
          wrong == \/ "road_rules" \notin DOMAIN f
                   \/ f["road_rules"].type /= "dict"
                   \/ \E key \in {"max_speed", "min_follow_distance", "stop_sign_wait"} :
                        key \notin DOMAIN f["road_rules"].fields
                   \/ "speed_zones" \in DOMAIN f /\ f["speed_zones"].type /= "list"
      IN  IF wrong
          THEN call.exc = ValueError /\ call.out = None
          ELSE /\ call.exc = NoException
               /\ LET out == Val(call.out).fields
                  IN  /\ DOMAIN out = DOMAIN f \cup {"speed_zones"}
                      /\ \A key \in DOMAIN f : out[key] = f[key]
                      /\ out["speed_zones"].type = "list"
                      /\ "speed_zones" \notin DOMAIN f => out["speed_zones"] = JList(<<>>)

\* A scenario with the three thresholds, a name and no speed_zones has been
\* loaded: it came back with an empty list of zones.
C23_Witness ==
    /\ LoadedDict
    /\ DOMAIN Val(call.arg).fields = {"road_rules", "name"}
    /\ DOMAIN Val(call.arg).fields["road_rules"].fields
         = {"max_speed", "min_follow_distance", "stop_sign_wait"}
    /\ call.exc = NoException
    /\ Val(call.out).fields["speed_zones"] = JList(<<>>)

\* A threshold that is a JSON number.
Numeric(j) == j.type = "number"

\* C24 as stated: a scenario whose road_rules has the three thresholds, one
\* of them no number, is rejected by load_scenario with ValueError.
C24_WrongTypeRejectedAtLoad ==
    ( /\ LoadedDict
      /\ "road_rules" \in DOMAIN Val(call.arg).fields
      /\ Val(call.arg).fields["road_rules"].type = "dict"
      /\ DOMAIN Val(call.arg).fields["road_rules"].fields
           = {"max_speed", "min_follow_distance", "stop_sign_wait"}
      /\ \E key \in {"max_speed", "min_follow_distance", "stop_sign_wait"} :
           ~Numeric(Val(call.arg).fields["road_rules"].fields[key]) )
    => (call.exc = ValueError /\ call.out = None)

\* ------------------------------------------------------------------------
\* log_analyzer.py: main
\* ------------------------------------------------------------------------

NameError == "NameError"
KeyError == "KeyError"
FileNotFoundError == "FileNotFoundError"

\* float(x) of a JSON value: a number is itself, a str is parsed, None and
\* the containers raise TypeError.
FloatOf(j) ==
    IF j.type = "number" THEN Gives(j.num)
    ELSE IF j.type = "string"
         THEN IF ParseFloat(j.text) = None THEN Fails(ValueError)
              ELSE Gives(Val(ParseFloat(j.text)))
    ELSE Fails(TypeError)

\* The three float(...) at the entry of detect_violations and of
\* upsert_ruleset, in their order: the thresholds, or the first exception.
Thresholds(scenario) ==
    LET road_rules == scenario.fields["road_rules"].fields
        max_speed  == FloatOf(road_rules["max_speed"])
        min_follow == FloatOf(road_rules["min_follow_distance"])
        stop_wait  == FloatOf(road_rules["stop_sign_wait"])
    IN  IF max_speed.exc /= NoException THEN Fails(max_speed.exc)
        ELSE IF min_follow.exc /= NoException THEN Fails(min_follow.exc)
        ELSE IF stop_wait.exc /= NoException THEN Fails(stop_wait.exc)
        ELSE Gives([max_speed |-> Val(max_speed.val),
                    min_follow_distance |-> Val(min_follow.val),
                    stop_sign_wait |-> Val(stop_wait.val)])

\* list(read_log(path)): every event of the file, or the first ValueError.
RECURSIVE ReadAll(_)
ReadAll(file) ==
    IF file = <<>> THEN Gives(<<>>)
    ELSE LET first == ReadLine(Head(file))
             rest  == ReadAll(Tail(file))
         IN  IF first.raise THEN Fails(ValueError)
             ELSE IF rest.exc /= NoException THEN rest
             ELSE Gives(first.yield \o Val(rest.val))

\* The scenario as make_report reads it: its name, None when it is no text.
NamedAs(scenario) ==
    IF "name" \notin DOMAIN scenario.fields THEN Some(NoKeys)
    ELSE Some("name" :> (IF scenario.fields["name"].type = "string"
                         THEN Some(scenario.fields["name"].text) ELSE None))

\* scenario.get("name") or "Unnamed".
StoredName(scenario) ==
    IF "name" \notin DOMAIN scenario.fields THEN Lit("Unnamed")
    ELSE IF scenario.fields["name"].type /= "string" \/ scenario.fields["name"].text = <<>>
         THEN Lit("Unnamed")
         ELSE scenario.fields["name"].text

\* The zones of a scenario as register_scenario reads them: each zone must
\* have its three keys.
ZoneHasKeys(zone) ==
    zone.type = "dict" /\ {"start_mile", "end_mile", "speed_limit"} \subseteq DOMAIN zone.fields
ZoneRecords(zones) ==
    [i \in 1..Len(zones) |->
       [start_mile |-> zones[i].fields["start_mile"].num,
        end_mile |-> zones[i].fields["end_mile"].num,
        speed_limit |-> zones[i].fields["speed_limit"].num]]

\* What a query mode prints: a mapping of counts, or a list of records.
Counts(d) == [kind |-> "counts", counts |-> d, records |-> <<>>]
Records(rs) == [kind |-> "records", counts |-> EmptyDict, records |-> rs]
NoOutput == [kind |-> "none", counts |-> EmptyDict, records |-> <<>>]

\* A run of main: its arguments; where it stands; the scenario and the
\* events it has loaded; the report it has written to report.json, if any;
\* what it has printed of a query; the step that failed, if any; the rule
\* and scenario ids it got from the store; and, once it has ended, its exit
\* status (an exception that leaves main ends the process with status 1).
MainAt(args, stage, scenario, evs, written, rid, sid, first) ==
    [op |-> "main", arg |-> args, done |-> FALSE, out |-> None, exc |-> NoException,
     src |-> None, before |-> first, stage |-> stage, scenario |-> scenario,
     events |-> evs, written |-> written, output |-> NoOutput, failed |-> "none",
     rid |-> rid, sid |-> sid]
MainExit(args, status, x, failed, written, output, first) ==
    [op |-> "main", arg |-> args, done |-> TRUE, out |-> Some(status), exc |-> x,
     src |-> None, before |-> first, stage |-> "exit", scenario |-> JNull,
     events |-> <<>>, written |-> written, output |-> output, failed |-> failed,
     rid |-> 0, sid |-> 0]

\* A new process: no run is under way and nothing of an earlier run is in
\* memory; between runs db is the database file (None: there is none yet).
NewProcess ==
    /\ IF call = None THEN TRUE ELSE call.done
    /\ pc' = "idle"
    /\ rules' \in RuleSets
    /\ events' = <<>>
    /\ last_follow' = None
    /\ stop_detect_time' = None
    /\ violations' = <<>>
    /\ emitted' = <<>>
    /\ ret' = NoResult
    /\ exc' = NoException
    /\ mode' = "free"
    /\ memo' = None

\* init_db(args.db): the tables of the file, empty ones for a new file.
Opened == IF db = None THEN EmptyTables ELSE db

Args(m, withdb, files, scenario, log, outdir, summary, sid, vtype) ==
    [mode |-> m, db |-> withdb, files |-> files, scenario |-> scenario, log |-> log,
     outdir |-> outdir, summary |-> summary, sid |-> sid, vtype |-> vtype]

\* Summary mode, lines 41-49.
MainSummary(args) ==
    /\ args.mode = "summary"
    /\ NewProcess
    /\ IF ~args.db
       THEN /\ call' = MainExit(args, 2, NoException, "usage", None, NoOutput, db)
            /\ UNCHANGED db
       ELSE /\ db' = Opened
            /\ LET rows == SelectSeq(Opened.violation,
                                     LAMBDA row : OfScenario(row, args.summary))
               IN  call' = MainExit(args, 0, NoException, "none", None,
                                    Counts(Tally(rows, EmptyDict)), db)

\* By-type mode, lines 52-68: after init_db the call of line 66 names
\* vtype, which is not defined.
MainByType(args) ==
    /\ args.mode = "by-type"
    /\ NewProcess
    /\ IF ~args.db \/ ParseInt(args.sid) = None
       THEN /\ call' = MainExit(args, 2, NoException, "usage", None, NoOutput, db)
            /\ UNCHANGED db
       ELSE /\ db' = Opened
            /\ call' = MainExit(args, 1, NameError, "query", None, NoOutput, db)

\* Analyze mode, lines 71-91: the checks of the paths, load_scenario and
\* list(read_log(...)).
MainLoad(args) ==
    /\ args.mode = "analyze"
    /\ NewProcess
    /\ UNCHANGED db
    /\ LET scenario == LoadScenario(args.scenario)
           evs      == ReadAll(args.log)
       IN  call' =
             IF args.files = "not given"
             THEN MainExit(args, 2, NoException, "usage", None, NoOutput, db)
             ELSE IF args.files = "not found"
             THEN MainExit(args, 2, NoException, "load", None, NoOutput, db)
             ELSE IF scenario.exc /= NoException
             THEN MainExit(args, 2, NoException, "load", None, NoOutput, db)
             ELSE IF evs.exc /= NoException
             THEN MainExit(args, 2, NoException, "read", None, NoOutput, db)
             ELSE MainAt(args, "loaded", Val(scenario.val), Val(evs.val), None, 0, 0, db)

\* Line 94, entry of detect_violations on the events of the log: the
\* thresholds are converted, outside any try of main.
MainDetect ==
    /\ call /= None /\ call.op = "main" /\ ~call.done
    /\ call.stage = "loaded"
    /\ pc = "idle"
    /\ LET r == Thresholds(call.scenario)
       IN  IF r.exc /= NoException
           THEN /\ call' = MainExit(call.arg, 1, r.exc, "detect", None, NoOutput,
                                    call.before)
                /\ UNCHANGED <<detector, db>>
           ELSE /\ Enter(Val(r.val), "replay")
                /\ memo' = Some([rules |-> Val(r.val), events |-> call.events,
                                 ret |-> NoResult, exc |-> NoException])

\* Lines 95-100: make_report, and the report is written to report.json,
\* which fails when its directory is not there.
MainReport ==
    /\ call /= None /\ call.op = "main" /\ ~call.done
    /\ call.stage = "loaded"
    /\ pc = "returned"
    /\ LET rep == MakeReport(NamedAs(call.scenario), Val(ret))
       IN  call' =
             IF ~call.arg.outdir
             THEN MainExit(call.arg, 1, FileNotFoundError, "write", None, NoOutput,
                           call.before)
             ELSE IF ~call.arg.db
             THEN MainExit(call.arg, 0, NoException, "none", Some(rep), NoOutput,
                           call.before)
             ELSE MainAt(call.arg, "written", call.scenario, call.events, Some(rep),
                         0, 0, call.before)
    /\ UNCHANGED <<detector, db>>

\* Line 105: init_db.
MainInitDb ==
    /\ call /= None /\ call.op = "main" /\ ~call.done
    /\ call.stage = "written"
    /\ db' = Opened
    /\ call' = MainAt(call.arg, "opened", call.scenario, call.events, call.written,
                      0, 0, call.before)
    /\ UNCHANGED detector

\* Line 106: upsert_ruleset(scenario["road_rules"]).
MainUpsert ==
    /\ call /= None /\ call.op = "main" /\ ~call.done
    /\ call.stage = "opened"
    /\ LET r     == Val(Thresholds(call.scenario).val)
           found == SelectSeq(db.ruleset, LAMBDA row : SameRuleset(row, r))
           id    == NextRowId(RuleIds)
       IN  IF found /= <<>>
           THEN /\ call' = MainAt(call.arg, "upserted", call.scenario, call.events,
                                  call.written, found[1].rule_id, 0, call.before)
                /\ UNCHANGED db
           ELSE /\ Len(db.ruleset) < MaxRulesets
                /\ db' = [db EXCEPT !.ruleset =
                            Append(@, [rule_id |-> id, max_speed |-> r.max_speed,
                                       min_follow_distance |-> r.min_follow_distance,
                                       stop_sign_wait |-> r.stop_sign_wait])]
                /\ call' = MainAt(call.arg, "upserted", call.scenario, call.events,
                                  call.written, id, 0, call.before)
    /\ UNCHANGED detector

\* Lines 107-113: register_scenario.  A zone without one of its keys raises
\* KeyError after the scenario was inserted and before the commit: the run
\* ends with status 2 and the insertion is lost with the connection.
MainRegister ==
    /\ call /= None /\ call.op = "main" /\ ~call.done
    /\ call.stage = "upserted"
    /\ LET zones       == call.scenario.fields["speed_zones"].items
           scenario_id == NextRowId(ScenarioIds)
       IN  IF \E i \in 1..Len(zones) : ~ZoneHasKeys(zones[i])
           THEN /\ call' = MainExit(call.arg, 2, NoException, "persist", call.written,
                                    NoOutput, call.before)
                /\ UNCHANGED db
           ELSE /\ Len(db.scenario) < MaxScenarios
                /\ db' = [db EXCEPT
                            !.scenario =
                               Append(@, [scenario_id |-> scenario_id,
                                          name |-> StoredName(call.scenario),
                                          description |-> <<>>,
                                          source_file |-> Lit("scenario.json"),
                                          ruleset_id |-> call.rid]),
                            !.speed_zone =
                               @ \o ZoneRows(ZoneRecords(zones), scenario_id,
                                             NextRowId(ZoneIds))]
                /\ call' = MainAt(call.arg, "registered", call.scenario, call.events,
                                  call.written, call.rid, scenario_id, call.before)
    /\ UNCHANGED detector

\* Lines 114-120: save_report(sid, rep["violations"]) and return 0.
MainSave ==
    /\ call /= None /\ call.op = "main" /\ ~call.done
    /\ call.stage = "registered"
    /\ LET vs == Val(call.written).violations
       IN  /\ Len(db.violation) + Len(vs) <= MaxRows
           /\ db' = [db EXCEPT !.violation =
                       @ \o ViolationRows(vs, call.sid, NextRowId(ViolationIds))]
    /\ call' = MainExit(call.arg, 0, NoException, "none", call.written, NoOutput,
                        call.before)
    /\ UNCHANGED detector

\* Lines of a log whose events are among the inputs of the detector: a
\* SPEED of 60.125 at 0.0625 s and at 1.125 s, a stop sign and a distance of
\* 9.875 at 1.0625 s, a lane change at 1.125 s; and a line of unknown kind.
T00625 == <<"0", ":", "0", ".", "0", "6", "2", "5">>
T10625 == <<"0", ":", "1", ".", "0", "6", "2", "5">>
T1125 == <<"0", ":", "1", ".", "1", "2", "5">>
N60125 == <<"6", "0", ".", "1", "2", "5">>
SpeedLine(t) == t \o Sp \o Lit("SPEED") \o Sp \o N60125 \o <<"\n">>
StopLine == T10625 \o Sp \o Lit("STOP_SIGN_DETECTED") \o <<"\n">>
FollowLine == T10625 \o Sp \o Lit("FOLLOW_DISTANCE") \o Sp \o N9875 \o <<"\n">>
LaneLine == T1125 \o Sp \o Lit("LANE_CHANGE") \o Sp \o LeftWord \o <<"\n">>
HonkLine == T005 \o Sp \o Lit("HONK") \o <<"\n">>

\* Logs: an empty one; one, and two, violations of one event; two
\* violations of two events; and one with a line off the grammar.
OneSpeedLog == <<SpeedLine(T00625)>>
GoodLogs ==
    { <<>>, OneSpeedLog, <<StopLine, <<"\n">>, SpeedLine(T1125)>>, <<FollowLine, LaneLine>> }
BadLog == <<SpeedLine(T00625), HonkLine>>

\* Scenario files: thresholds 60.0, 10.0 and 1.0; the first of them as a
\* str; thresholds that are no numbers; no road_rules; zones with and
\* without their keys; a file that is no JSON.
RoadRulesOf(max_speed) ==
    JObj([max_speed |-> max_speed, min_follow_distance |-> Ten, stop_sign_wait |-> One])
Drive == JStr(<<"D", "r", "i", "v", "e">>)
PlainScenario == Some(JObj([name |-> Drive, road_rules |-> RoadRulesOf(Sixty)]))
TextScenario == Some(JObj([road_rules |-> RoadRulesOf(JStr(N60))]))
ZonedScenario ==
    Some(JObj([name |-> Drive, road_rules |-> RoadRulesOf(Sixty),
               speed_zones |-> JList(<<AZone>>)]))
BadZoneScenario ==
    Some(JObj([name |-> Drive, road_rules |-> RoadRulesOf(Sixty),
               speed_zones |-> JList(<<JObj(NoKeys)>>)]))
WrongTypeScenarios ==
    { Some(JObj([name |-> Drive, road_rules |-> RoadRulesOf(v)])) : v \in NotNumeric }
UnloadableScenarios == { None, Some(JObj([name |-> Drive])) }

\* Arguments of main in each mode.
SummaryArgs ==
    { Args("summary", TRUE, "not given", None, <<>>, TRUE, n, <<>>, "") : n \in 1..MaxScenarios }
    \cup { Args("summary", FALSE, "not given", None, <<>>, TRUE, 1, <<>>, "") }
ByTypeArgs ==
    { Args("by-type", TRUE, "not given", None, <<>>, TRUE, 0, <<"1">>, "SPEEDING"),
      Args("by-type", TRUE, "not given", None, <<>>, TRUE, 0, <<"x">>, "SPEEDING"),
      Args("by-type", FALSE, "not given", None, <<>>, TRUE, 0, <<"1">>, "SPEEDING") }
Analyze(withdb, files, scenario, log, outdir) ==
    Args("analyze", withdb, files, scenario, log, outdir, 0, <<>>, "")
AnalyzeArgs ==
    { Analyze(FALSE, files, None, <<>>, TRUE) : files \in {"not given", "not found"} }
    \cup { Analyze(FALSE, "found", s, OneSpeedLog, TRUE) :
             s \in UnloadableScenarios \cup WrongTypeScenarios }
    \cup { Analyze(FALSE, "found", PlainScenario, BadLog, TRUE),
           Analyze(FALSE, "found", PlainScenario, OneSpeedLog, FALSE),
           Analyze(TRUE, "found", TextScenario, OneSpeedLog, TRUE),
           Analyze(TRUE, "found", BadZoneScenario, OneSpeedLog, TRUE) }
    \cup { Analyze(FALSE, "found", PlainScenario, log, TRUE) : log \in GoodLogs }
    \cup { Analyze(TRUE, "found", s, log, TRUE) :
             s \in {PlainScenario, ZonedScenario}, log \in GoodLogs }

MainInit ==
    /\ DetectorIdle
    /\ db = None
    /\ call = None

\* Runs of main, one after the other, on one database file.  read_log
\* yields no event the detector rejects, so within a run the loop of
\* detect_violations takes its four branches of known kinds only.
MainNext ==
    \/ \E args \in SummaryArgs : MainSummary(args)
    \/ \E args \in ByTypeArgs : MainByType(args)
    \/ \E args \in AnalyzeArgs : MainLoad(args)
    \/ MainDetect
    \/ OnSpeed
    \/ OnFollowDistance
    \/ OnLaneChange
    \/ OnStopSign
    \/ Return
    \/ MainReport
    \/ MainInitDb
    \/ MainUpsert
    \/ MainRegister
    \/ MainSave

MainSpec == MainInit /\ [][MainNext]_vars

\* A run of main that has ended, in the given mode.
MainEnded(m) ==
    IF call = None THEN FALSE
    ELSE IF call.op /= "main" THEN FALSE
    ELSE call.done /\ call.arg.mode = m

\* C25: in an analyze run of main, whenever a step fails (loading the
\* scenario, reading the log, detecting the violations, or saving to the
\* store), the run ends with a non-zero status and no report file has been
\* written.
C25_FailureLeavesNoReport ==
    MainEnded("analyze")
        => (call.failed \in {"load", "read", "detect", "persist"}
               => Val(call.out) /= 0 /\ call.written = None)

\* The by-type rows of the store, in one of the orders ORDER BY tstamp allows.
IsByTypeList(records, scenario_id, vtype) ==
    LET rows == SelectSeq(db.violation,
                  LAMBDA row : row.scenario_id = scenario_id /\ row.type = vtype)
    IN  \E p \in Arrangements(Len(rows)) :
            /\ InTstampOrder(rows, p)
            /\ records = [i \in 1..Len(rows) |->
                            [time |-> rows[p[i]].tstamp, type |-> rows[p[i]].type,
                             details |-> rows[p[i]].details]]

\* C26: in by-type mode with --db and an integer SCENARIO_ID, main outputs
\* the ordered list of {time, type, details} records of the violations of
\* that scenario id and that type in the store, and returns status 0.
C26_ByTypeListsAndSucceeds ==
    MainEnded("by-type")
        => (call.arg.db /\ ParseInt(call.arg.sid) /= None
               => /\ Val(call.out) = 0
                  /\ call.output.kind = "records"
                  /\ IsByTypeList(call.output.records, Val(ParseInt(call.arg.sid)),
                                  call.arg.vtype))

\* C27: in summary mode with --db, main outputs the N most recent violation
\* records of the store, across all scenarios; N is a count, not a
\* scenario id.
C27_SummaryIsMostRecent ==
    MainEnded("summary")
        => (call.arg.db
               => /\ call.output.kind = "records"
                  /\ call.output.records = Recent(db.violation, call.arg.summary))

\* The SPEED event at j does not qualify for the stop check of the stop sign
\* at k: it does not move, or it is not later than the stop sign.
NotDueAfter(k, j) == k < j /\ SpeedAt(j) /\ ~DueAfter(k, j)

\* A SPEED step taken while a wait is pending, by an event that does not
\* qualify: no ROLLING_STOP is appended and stop_detect_time stays.
C28_Step ==
    LET n == Len(events')
        e == events'[n]
        o == Val(stop_detect_time)
    IN  ( /\ pc = "loop" /\ pc' = "loop" /\ n = Len(events) + 1
          /\ e.kind = "SPEED" /\ IsNum(e)
          /\ stop_detect_time /= None
          /\ ~(Num(e) > TicksPerUnit /\ e.t > o) )
        => /\ CountType(emitted'[n], "ROLLING_STOP") = 0
           /\ stop_detect_time' = stop_detect_time

\* The first due SPEED event after a stop sign and after SPEED events that
\* did not qualify is judged from the time of that stop sign.
C28_LaterChecked ==
    \A k, j, l \in Idx :
        ( /\ StopAt(k) /\ NotDueAfter(k, j) /\ j < l /\ DueAfter(k, l)
          /\ \A i \in (k + 1)..(l - 1) : ~StopAt(i) /\ ~DueAfter(k, i) )
        => /\ ~Emits(j, "ROLLING_STOP")
           /\ Emits(l, "ROLLING_STOP")
                <=> events[l].t - events[k].t < rules.stop_sign_wait

\* C28: while a stop-sign wait is pending, a SPEED event that does not
\* qualify (v <= 1.0, exactly 1.0 included, or a time not strictly greater
\* than the origin) emits no ROLLING_STOP and leaves the wait pending with
\* the same origin, so a later qualifying SPEED event is still checked
\* against that origin.
C28_NonQualifyingKeepsWait == [][C28_Step]_vars /\ []C28_LaterChecked

\* A stop sign, a later SPEED event of exactly 1.0 that emitted nothing,
\* then a moving SPEED event within the wait of the stop sign, which emitted
\* a ROLLING_STOP.
C28_Witness ==
    /\ Len(events) = 3
    /\ StopAt(1) /\ SpeedAt(2) /\ MovingAt(3)
    /\ Num(events[2]) = TicksPerUnit
    /\ events[2].t > events[1].t
    /\ events[3].t - events[1].t < rules.stop_sign_wait
    /\ emitted[2] = <<>>
    /\ Emits(3, "ROLLING_STOP")

\* How many times v stands in the list vs.
Occurrences(vs, v) == Cardinality({i \in 1..Len(vs) : vs[i] = v})

\* Two lists hold the same violations the same number of times.
IsPermutation(xs, ys) ==
    /\ Len(xs) = Len(ys)
    /\ \A i \in 1..Len(xs) : Occurrences(xs, xs[i]) = Occurrences(ys, xs[i])

\* Every violation of the list vs is of one of the types.
OnlyTypes(vs, types) == \A n \in 1..Len(vs) : vs[n].type \in types

\* C29: on a successful run the returned list is a permutation of the
\* violations emitted during the pass: sorting neither drops nor duplicates
\* any.  Each SPEED event contributes at most one SPEEDING and at most one
\* ROLLING_STOP, each FOLLOW_DISTANCE at most one TAILGATING, each
\* LANE_CHANGE at most one UNSAFE_LANE_CHANGE and each STOP_SIGN_DETECTED
\* none, so an empty event sequence gives an empty list without error.
C29_ReturnsWhatWasEmitted ==
    /\ pc = "loop" => violations = Flatten(emitted)
    /\ pc = "returned" =>
         /\ exc = NoException
         /\ ret /= NoResult
         /\ IsPermutation(Val(ret), Flatten(emitted))
         /\ events = <<>> => Val(ret) = <<>>
    /\ Len(emitted) = Len(events)
    /\ \A i \in Idx :
         /\ events[i].kind = "SPEED" =>
              /\ OnlyTypes(emitted[i], {"SPEEDING", "ROLLING_STOP"})
              /\ CountType(emitted[i], "SPEEDING") <= 1
              /\ CountType(emitted[i], "ROLLING_STOP") <= 1
         /\ events[i].kind = "FOLLOW_DISTANCE" =>
              /\ OnlyTypes(emitted[i], {"TAILGATING"})
              /\ Len(emitted[i]) <= 1
         /\ events[i].kind = "LANE_CHANGE" =>
              /\ OnlyTypes(emitted[i], {"UNSAFE_LANE_CHANGE"})
              /\ Len(emitted[i]) <= 1
         /\ events[i].kind = "STOP_SIGN_DETECTED" => emitted[i] = <<>>

\* A returned call in which an event emitted the same violation as an
\* earlier one and the sort moved a violation.
C29_Witness ==
    /\ pc = "returned"
    /\ \E i, j \in Idx : i < j /\ emitted[i] /= <<>> /\ emitted[j] = <<emitted[i][1]>>
    /\ Val(ret) /= Flatten(emitted)

\* ------------------------------------------------------------------------
\* The sort key of detect_violations on pairs of timestamps
\* ------------------------------------------------------------------------

\* The key the final sort gives a violation found at time t.
KeyOf(t) == SortKey(Violation("SPEEDING", t, <<>>))

\* Timestamps, in ticks: the sixteenths of a second from 0 on, and around
\* the minutes 1, 60, 99, 100, 101 and 1000: 0.0625 s and 0.0375 s before
\* the minute, the minute itself, 0.0625 s after it and half a minute
\* after it.
KeyMinutes == {1, 60, 99, 100, 101, 1000}
KeyArgs ==
    {5 * k : k \in 0..MaxSixteenths}
    \cup {m * 60 * TicksPerUnit + d : m \in KeyMinutes, d \in {-5, -3, 0, 5, 2400}}

\* Either the keys of two timestamps are about to be computed, or
\* detect_violations is about to be called.
KeyInit ==
    /\ DetectorIdle
    /\ db = None
    /\ \/ call = None
       \/ \E t1, t2 \in KeyArgs : call = Pending("sort_key", <<t1, t2>>)

\* The key lambda of the sort applied to the times of two violations.
CallSortKey ==
    /\ IF call = None THEN FALSE ELSE ~call.done
    /\ call' = Returned("sort_key", call.arg,
                        <<KeyOf(call.arg[1]), KeyOf(call.arg[2])>>, None)
    /\ UNCHANGED <<detector, db>>

KeyNext ==
    \/ CallSortKey
    \/ call = None /\ Next

KeySpec == KeyInit /\ [][KeyNext]_vars

\* The events consumed are in non-decreasing order of timestamp.
InTimeOrder == \A i, j \in Idx : i < j => events[i].t <= events[j].t

\* C30: the numeric sort key (the formatted time without ":" and ".") is
\* monotone in the timestamp for every timestamp t >= 0, minutes of 100 and
\* more included: t1 <= t2 implies key(_fmt_time(t1)) <= key(_fmt_time(t2)).
\* Hence a call whose events are in non-decreasing order of timestamp
\* returns its violations in the order it emitted them.
C30_KeyMonotone ==
    /\ (IF call = None THEN FALSE ELSE call.done)
         => (call.arg[1] <= call.arg[2] => Val(call.out)[1] <= Val(call.out)[2])
    /\ (pc = "returned" /\ InTimeOrder) => Val(ret) = Flatten(emitted)

\* The keys of 99 min 59.9625 s, which prints as "99:60.0", and of 100 min,
\* which prints as "100:00.0".
C30_Witness ==
    /\ IF call = None THEN FALSE ELSE call.done
    /\ call.arg[1] < call.arg[2]
    /\ FmtTime(call.arg[1]) = <<"9", "9", ":", "6", "0", ".", "0">>
    /\ FmtTime(call.arg[2]) = <<"1", "0", "0", ":", "0", "0", ".", "0">>
    /\ Val(call.out)[1] < Val(call.out)[2]

\* The SPEED event at j was over the limit and was judged a rolling stop.
BothAt(j) == SpeedAt(j) /\ Emits(j, "SPEEDING") /\ Emits(j, "ROLLING_STOP")

\* C31: a single SPEED event that exceeds max_speed and is the first
\* qualifying sample of a pending wait with waited < stop_sign_wait emits
\* two violations of the same formatted time, the SPEEDING one first, and
\* in the returned list the SPEEDING violation of that event stands before
\* its ROLLING_STOP violation (directly before it: the sort is stable and
\* their keys are equal).
C31_SpeedingBeforeRollingStop ==
    \A j \in Idx :
        LET k == LastStopBefore(j)
        IN  ( /\ SpeedAt(j) /\ Num(events[j]) > rules.max_speed
              /\ k > 0 /\ DueAfter(k, j)
              /\ \A i \in (k + 1)..(j - 1) : ~DueAfter(k, i)
              /\ events[j].t - events[k].t < rules.stop_sign_wait )
            => /\ Len(emitted[j]) = 2
               /\ emitted[j][1].type = "SPEEDING"
               /\ emitted[j][2].type = "ROLLING_STOP"
               /\ emitted[j][1].time = FmtTime(events[j].t)
               /\ emitted[j][2].time = emitted[j][1].time
               /\ pc = "returned" =>
                    \E p \in 1..(Len(Val(ret)) - 1) :
                        /\ Val(ret)[p] = emitted[j][1]
                        /\ Val(ret)[p + 1] = emitted[j][2]

\* A returned call with a stop sign, a SPEED event over the limit within
\* the wait, and a violation of another event.
C31_Witness ==
    /\ pc = "returned"
    /\ Len(Val(ret)) = 3
    /\ \E j \in Idx : BothAt(j) /\ Len(emitted[j]) = 2

\* A step of the loop that takes one event, of any kind, whether it ends
\* the call with an error or not: what it leaves as it was.
C32_Step ==
    LET n == Len(events')
        e == events'[n]
    IN  (pc = "loop" /\ n = Len(events) + 1)
        => /\ rules' = rules
           /\ SubSeq(events', 1, Len(events)) = events
           /\ mode = "replay" =>
                /\ memo /= None /\ memo' /= None
                /\ Val(memo').rules = Val(memo).rules
                /\ Val(memo').events = Val(memo).events
                /\ e = Val(memo).events[n]
           /\ e.kind = "SPEED" => last_follow' = last_follow
           /\ e.kind = "FOLLOW_DISTANCE" => stop_detect_time' = stop_detect_time
           /\ e.kind = "LANE_CHANGE" =>
                last_follow' = last_follow /\ stop_detect_time' = stop_detect_time
           /\ e.kind = "STOP_SIGN_DETECTED" => last_follow' = last_follow

\* C32: each event kind changes only its own part of the detector state.
\* SPEED events never change the recorded follow distance, FOLLOW_DISTANCE
\* events never change the pending stop-sign origin, LANE_CHANGE events
\* change neither, STOP_SIGN_DETECTED events never change the recorded
\* follow distance, and no event changes the rule thresholds or the input
\* events.
C32_OwnPartOnly == [][C32_Step]_vars

\* A follow distance, then a stop sign, then a lane change: the distance
\* and the stop sign are both still on record.
C32_Witness ==
    /\ pc = "loop"
    /\ Len(events) = 3
    /\ FollowAt(1) /\ StopAt(2) /\ LaneAt(3)
    /\ last_follow = Some(Num(events[1]))
    /\ stop_detect_time = Some(events[2].t)

\* ------------------------------------------------------------------------
\* The order of the detector and the order of the by-type query
\* ------------------------------------------------------------------------

\* Timestamps, in ticks: -90 s and -30 s (a log line may carry a signed
\* timestamp, which parse_time accepts), 0.0625 s, 1.0625 s, 59.9625 s
\* (printed "00:60.0"), 1 min, 9 min 59.9375 s, 10 min, 99 min 59.9625 s,
\* 100 min and 101 min.
OrderArgs ==
    {-90 * TicksPerUnit, -30 * TicksPerUnit, 5, 85, 60 * TicksPerUnit - 3,
     60 * TicksPerUnit, 600 * TicksPerUnit - 5, 600 * TicksPerUnit,
     6000 * TicksPerUnit - 3, 6000 * TicksPerUnit, 6060 * TicksPerUnit}

\* What detect_violations returns for two SPEED events over the limit, at
\* t1 and at t2, in this order in the input.
DetectedAt(t1, t2) ==
    SortViolations(<< Violation("SPEEDING", t1, Lit("first")),
                      Violation("SPEEDING", t2, Lit("second")) >>)

\* A database holding one ruleset and one scenario and no violation.
OneScenario ==
    [EmptyTables EXCEPT
       !.ruleset = << [rule_id |-> 1, max_speed |-> BaseRules.max_speed,
                       min_follow_distance |-> BaseRules.min_follow_distance,
                       stop_sign_wait |-> BaseRules.stop_sign_wait] >>,
       !.scenario = << [scenario_id |-> 1, name |-> ScenarioName, description |-> <<>>,
                        source_file |-> Lit("log.txt"), ruleset_id |-> 1] >>]

\* The violations of a run are about to be saved, as main saves them: in
\* the order detect_violations returned them.
OrderInit ==
    /\ DetectorIdle
    /\ db = OneScenario
    /\ \E t1, t2 \in OrderArgs :
         call = Pending("save_report",
                        [scenario_id |-> 1, violations |-> DetectedAt(t1, t2)])

OrderSave ==
    /\ ~call.done
    /\ SaveReport(call.arg.scenario_id, call.arg.violations)

OrderQuery ==
    /\ call.done
    /\ call.op = "save_report"
    /\ GetViolationsByType(1, "SPEEDING")

OrderNext == OrderSave \/ OrderQuery

OrderSpec == OrderInit /\ [][OrderNext]_vars

\* The minutes of a formatted time: the number before the ":".
MinutesOf(time) == Val(ParseInt(Split(time, ":")[1]))

\* Where the violation of a stored row stands in a list of records.
PlaceOf(row, records) ==
    CHOOSE n \in 1..Len(records) :
        records[n].time = row.tstamp /\ records[n].details = row.details

\* C33 as stated: for two formatted times of minutes below 100, the
\* ascending comparison of the texts agrees with the comparison of their
\* numeric sort keys, so the by-type query, which orders by the stored text,
\* never reverses the order the detector gave to two violations of
\* different formatted times.
C33_TextOrderIsKeyOrder ==
    (call.done /\ call.op = "get_violations_by_type") =>
        \A i, j \in 1..Len(db.violation) :
            LET a == db.violation[i]
                b == db.violation[j]
            IN  ( /\ i < j /\ a.tstamp /= b.tstamp
                  /\ MinutesOf(a.tstamp) < 100 /\ MinutesOf(b.tstamp) < 100 )
                => /\ TextLess(a.tstamp, b.tstamp)
                        <=> SortKey([time |-> a.tstamp]) < SortKey([time |-> b.tstamp])
                   /\ PlaceOf(a, Val(call.out)) < PlaceOf(b, Val(call.out))

\* The functions of storage.py that go through _conn().
ConnOps ==
    {"upsert_ruleset", "register_scenario", "save_report", "get_violation_counts",
     "get_violations_by_type", "get_recent_violations"}

\* C34: every storage operation (upsert_ruleset, register_scenario,
\* save_report, get_violation_counts, get_violations_by_type,
\* get_recent_violations) called before init_db has set the connection
\* fails with an assertion error and reads or writes nothing: as long as no
\* database is open, the last call is one of these, it has raised
\* AssertionError, it has no result, and there is still no database.
C34_NoConnectionNoAccess ==
    db = None =>
        IF call = None THEN TRUE
        ELSE /\ call.op \in ConnOps
             /\ call.done
             /\ call.exc = AssertionError
             /\ call.out = None
             /\ call.before = None

\* save_report of a list of two violations, called before init_db.
C34_Witness ==
    /\ db = None
    /\ IF call = None THEN FALSE
       ELSE /\ call.op = "save_report"
            /\ Len(call.arg.violations) = 2
            /\ call.exc = AssertionError

====
